---- MODULE Spec2Model ----
(***************************************************************************)
(* State-machine model of the AegisRPG real-time core:                     *)
(*   GameServer      (backend-essential/gameServer.js)                     *)
(*   ServerAuthority (backend-essential/MatchManager.js, second class)     *)
(*   MatchManager    (backend-essential/MatchManager.js, first class)      *)
(*                                                                         *)
(* Times are milliseconds, as returned by Date.now().  A JavaScript value  *)
(* that may be undefined is modelled as a sequence of length 0 or 1 (for a *)
(* coordinate pair: length 0 or 2), so that "undefined" is a value of the  *)
(* same kind as the defined ones.                                          *)
(***************************************************************************)
EXTENDS Integers, Sequences, FiniteSets, TLC

VARIABLES
    now,               \* Date.now()
    transports,        \* playerId -> number of open WebSockets whose handlers are bound to that id
    players,           \* GameServer.players: playerId -> <<>> or <<PlayerConnection>>
    playersByMatch,    \* GameServer.playersByMatch: matchId -> the Set's members in insertion order
                       \*   (a key is deleted exactly when its Set becomes empty: absent = <<>>)
    matches,           \* GameServer.matches (legacy map): matchId -> <<>> or <<MatchState>>
    mmMatches,         \* MatchManager.matches: matchId -> <<>> or <<match record>>
    uuidCounter,       \* number of uuidv4() match ids handed out so far
    suspiciousPlayers, \* ServerAuthority.suspiciousPlayers: playerId -> violation count
    playerActions,     \* ServerAuthority.playerActions: playerId -> sequence of action timestamps
    gameItems,         \* ServerAuthority.gameItems: the [key, item] entries of the world
    playerInventories, \* ServerAuthority.playerInventories: playerId -> inventory
    lastAcceptedAttack, \* history: playerId -> timestamp of its latest accepted attack (0: none)
    outbox,            \* messages written to sockets by the step just taken, in send order
    last,              \* the step just taken: handler, the player it ran for, the path it took
    timers             \* pending setTimeout callbacks of MatchManager: kind, matchId, due time

vars == <<now, transports, players, playersByMatch, matches, mmMatches, uuidCounter,
          suspiciousPlayers, playerActions, gameItems, playerInventories,
          lastAcceptedAttack, outbox, last, timers>>

----------------------------------------------------------------------------
(* Bounds of the model *)

EpochStart == 3000      \* Date.now() when the server is constructed
MaxNow == 363000        \* the clock is not advanced past this value
MaxMatches == 3         \* uuidv4() match ids available
MaxViolations == 10     \* violation counts explored per player
MaxActions == 20        \* action-history entries explored per player

PlayerIds == {"p1", "p2"}
ClockSteps == {1500}
\* match ids a client can name in the connection URL: the default and the generated ones
Uuid(n) == IF n = 1 THEN "uuid1" ELSE IF n = 2 THEN "uuid2" ELSE IF n = 3 THEN "uuid3" ELSE "uuid4"
Uuids == {Uuid(n) : n \in 1..4}
MatchIds == {"lobby"} \cup Uuids

----------------------------------------------------------------------------
(* Program constants *)

attackCooldown == 1500
maxAttackRange == 50
maxDamagePerHit == 25
minDamagePerHit == 5
maxHealth == 100
maxMovementSpeed == 5
maxMovementSpeedMultiplier == 2
autoKickThreshold == 10
suspiciousActionThreshold == 5
worldBounds == [minX |-> 0, maxX |-> 1000, minY |-> 0, maxY |-> 1000]

----------------------------------------------------------------------------
(* Positions.  A position object may carry top-level x/y (the shape a      *)
(* MOVE_REQUEST must have to pass the bounds check) and/or world and room  *)
(* members (the shape handleNewConnection creates).                        *)

Undefined == <<>>
XY(x, y) == <<x, y>>
FlatPos(x, y) == [xy |-> XY(x, y), world |-> Undefined, room |-> Undefined]
NestedPos(wx, wy, rx, ry) == [xy |-> Undefined, world |-> XY(wx, wy), room |-> XY(rx, ry)]
InitialPosition == NestedPos(0, 0, 3, 4)

\* the world coordinates a position object denotes: its own x/y, else its world member
WorldXY(pos) == IF pos.xy # Undefined THEN pos.xy ELSE pos.world

NaN == 0 - 1
\* calculateDistance squared; NaN when pos.x / pos.y is undefined on either side
calculateDistanceSq(pos1, pos2) ==
    IF pos1.xy = Undefined \/ pos2.xy = Undefined
    THEN NaN
    ELSE (pos1.xy[1] - pos2.xy[1]) * (pos1.xy[1] - pos2.xy[1])
         + (pos1.xy[2] - pos2.xy[2]) * (pos1.xy[2] - pos2.xy[2])

\* pos.x >= minX && pos.x <= maxX && ...: every comparison with undefined is false
isPositionInBounds(pos) ==
    /\ pos.xy # Undefined
    /\ pos.xy[1] >= worldBounds.minX /\ pos.xy[1] <= worldBounds.maxX
    /\ pos.xy[2] >= worldBounds.minY /\ pos.xy[2] <= worldBounds.maxY

\* distance > maxMovementSpeed * (timeDelta / 1000) * maxMovementSpeedMultiplier,
\* with distance = sqrt(distSq); false when distance is NaN
ExceedsMaxMovementDistance(distSq, timeDelta) ==
    LET msPerUnit == 1000 \div (maxMovementSpeed * maxMovementSpeedMultiplier)
    IN  /\ distSq # NaN
        /\ \/ timeDelta < 0
           \/ msPerUnit * msPerUnit * distSq > timeDelta * timeDelta

hasObstacleCollision(fromPos, toPos) == FALSE

----------------------------------------------------------------------------
(* Sessions *)

NewGameState(t) ==
    [ position          |-> InitialPosition,
      health            |-> 100,
      inCombat          |-> FALSE,
      ready             |-> FALSE,
      alive             |-> TRUE,
      stats             |-> [attack |-> 10, defense |-> 5, speed |-> 5],
      lastAttackTime    |-> 0,
      lastMoveTime      |-> t,
      lastValidPosition |-> InitialPosition,
      aliased           |-> FALSE,   \* position and lastValidPosition are one object
      kills             |-> 0,
      lastCombatTime    |-> 0,
      deathTime         |-> Undefined,
      killedBy          |-> Undefined ]

NewPlayerConnection(matchId, t) ==
    [ matchId   |-> matchId,
      lastPing  |-> t,
      status    |-> "connecting",
      isAlive   |-> TRUE,
      gameState |-> NewGameState(t) ]

HasSession(playerId) == players[playerId] # <<>>
Session(playerId) == players[playerId][1]
GS(playerId) == players[playerId][1].gameState

SeqToSet(s) == {s[i] : i \in 1..Len(s)}
SeqWithout(s, x) == SelectSeq(s, LAMBDA e : e # x)
\* Set.add: appended when new, left in place otherwise
SetAdd(s, x) == IF x \in SeqToSet(s) THEN s ELSE Append(s, x)

----------------------------------------------------------------------------
(* Outbound messages *)

Msg(to, type, body) == [to |-> to, type |-> type, body |-> body]

\* sendToPlayer: dropped when the id has no session or its isAlive flag is cleared
sendToPlayer(pl, playerId, type, body) ==
    IF pl[playerId] # <<>> /\ pl[playerId][1].isAlive
    THEN <<Msg(playerId, type, body)>>
    ELSE <<>>

RECURSIVE SendEach(_, _, _, _)
SendEach(pl, ids, type, body) ==
    IF ids = <<>> THEN <<>>
    ELSE sendToPlayer(pl, Head(ids), type, body) \o SendEach(pl, Tail(ids), type, body)

broadcastToMatch(pl, pbm, matchId, type, body) ==
    SendEach(pl, pbm[matchId], type, body)

broadcastToMatchExcluding(pl, pbm, matchId, type, body, excludePlayerId) ==
    SendEach(pl, SeqWithout(pbm[matchId], excludePlayerId), type, body)


----------------------------------------------------------------------------
(* MatchManager *)

MAP_SEED == 12345
MATCH_DURATION == 300000
\* generateMatchSeed: MAP_SEED + floor(random * 1000000); the draws explored
Seeds == {MAP_SEED}

landmarks ==
    { [pos |-> XY(0, 0),     type |-> "town"],
      [pos |-> XY(5, -3),    type |-> "village"],
      [pos |-> XY(-7, 4),    type |-> "dungeon"],
      [pos |-> XY(2, 8),     type |-> "ruins"],
      [pos |-> XY(-4, -6),   type |-> "cave"],
      [pos |-> XY(10, 2),    type |-> "tower"],
      [pos |-> XY(-10, -10), type |-> "village"],
      [pos |-> XY(15, 15),   type |-> "dungeon"] }

InaccessibleTerrain == {"deep_water", "dense_forest", "mountain", "cliff"}
AccessibleTerrain ==
    {"grass", "forest", "hills", "water", "beach", "desert", "road", "bridge", "swamp",
     "ruins", "cave", "camp", "portal", "temple", "town", "city", "village", "tower", "dungeon"}

\* TERRAIN_ACCESS[t].roomType for the accessible types
RoomTypeOf(terrainType) ==
    IF terrainType = "grass" THEN "field"
    ELSE IF terrainType = "water" THEN "shore"
    ELSE terrainType

isTerrainAccessible(terrainType) == terrainType \in AccessibleTerrain

Abs(n) == IF n < 0 THEN 0 - n ELSE n

\* ((hash << 5) + hash) + v, twice; the inputs explored keep every intermediate
\* value inside the int32 range, where hash << 5 is hash * 32
hashCoords(x, y, seed) ==
    LET h1 == ((seed * 32) + seed) + x
        h2 == ((h1 * 32) + h1) + y
    IN  Abs(h2)

generateTerrainType(x, y, seed) ==
    LET permille == hashCoords(x, y, seed) % 1000    \* value = permille / 1000
    IN  IF y = 0 /\ Abs(x) <= 5 THEN "road"
        ELSE IF permille > 800 THEN "mountain"
        ELSE IF permille > 600 THEN "forest"
        ELSE IF permille > 400 THEN "hills"
        ELSE IF permille > 200 THEN "grass"
        ELSE IF permille > 100 THEN "water"
        ELSE "deep_water"

CacheHas(cache, key) == \E e \in cache : e.key = key
CacheGet(cache, key) == (CHOOSE e \in cache : e.key = key).type

\* getTerrainType without its landmark lookup
getTerrainTypeSkippingLandmarks(match, key) ==
    IF CacheHas(match.terrainCache, key)
    THEN [type |-> CacheGet(match.terrainCache, key), cache |-> match.terrainCache]
    ELSE LET t == generateTerrainType(key[1], key[2], match.seed)
         IN  [type |-> t, cache |-> match.terrainCache \cup {[key |-> key, type |-> t]}]

\* getTerrainType for an existing match: the terrain and the cache afterwards
getTerrainType(match, key) ==
    IF CacheHas(match.terrainCache, key)
    THEN [type |-> CacheGet(match.terrainCache, key), cache |-> match.terrainCache]
    ELSE LET t == IF \E l \in landmarks : l.pos = key
                  THEN (CHOOSE l \in landmarks : l.pos = key).type
                  ELSE generateTerrainType(key[1], key[2], match.seed)
         IN  [type |-> t, cache |-> match.terrainCache \cup {[key |-> key, type |-> t]}]

RoomAt(match, key) == CHOOSE r \in match.rooms : r.worldPos = key
HasRoom(match, key) == \E r \in match.rooms : r.worldPos = key

\* generateRoomData for an existing match: the match afterwards and whether a room
\* (cached or new) is returned
generateRoomData(match, key) ==
    IF HasRoom(match, key)
    THEN [match |-> match, room |-> <<RoomAt(match, key)>>]
    ELSE LET tt == getTerrainType(match, key)
             m1 == [match EXCEPT !.terrainCache = tt.cache]
             room == [worldPos |-> key, terrainType |-> tt.type,
                      roomType |-> RoomTypeOf(tt.type),
                      discovered |-> FALSE, exploredBy |-> {}]
         IN  IF ~isTerrainAccessible(tt.type)
             THEN [match |-> m1, room |-> <<>>]
             ELSE [match |-> [m1 EXCEPT !.rooms = @ \cup {room}], room |-> <<room>>]

NewMatchPlayer(t) ==
    [ status |-> "ALIVE", position |-> [world |-> XY(0, 0), room |-> XY(3, 4)],
      health |-> 100, kills |-> 0, deaths |-> 0, itemsCollected |-> 0,
      roomsExplored |-> {}, damageDealt |-> 0, damageTaken |-> 0,
      deathTime |-> Undefined, firstKillTime |-> Undefined, lastActivity |-> t ]

\* createMatch(players) with the id and the seed it draws; playerOrder is the
\* insertion order of the players Map
createMatch(matchId, seed, playerList, t) ==
    [ matchId |-> matchId, seed |-> seed, status |-> "STARTING",
      players |-> [p \in PlayerIds |->
                      IF p \in SeqToSet(playerList) THEN <<NewMatchPlayer(t)>> ELSE <<>>],
      playerOrder |-> playerList,
      rooms |-> {}, terrainCache |-> {},
      startTime |-> t, endTime |-> Undefined ]

startMatch(match, t) ==
    [match EXCEPT !.status = "ACTIVE", !.startTime = t, !.endTime = <<t + MATCH_DURATION>>]

\* updatePlayerPosition: result is "false" (unknown match or player), "true", or
\* "throw" when position.world is undefined (TypeError at position.world.x, after
\* player.position and lastActivity have been assigned)
updatePlayerPosition(mm, matchId, playerId, position, t) ==
    IF mm[matchId] = <<>> \/ mm[matchId][1].players[playerId] = <<>>
    THEN [mm |-> mm, result |-> "false"]
    ELSE LET match == mm[matchId][1]
             m1 == [match EXCEPT !.players[playerId][1].position = position,
                                 !.players[playerId][1].lastActivity = t]
             key == position.world
             m2 == [m1 EXCEPT !.players[playerId][1].roomsExplored = @ \cup {key}]
             g == generateRoomData(m2, key)
             m3 == IF g.room = <<>> THEN g.match
                   ELSE LET r == g.room[1]
                            r2 == [r EXCEPT !.discovered = TRUE, !.exploredBy = @ \cup {playerId}]
                        IN  [g.match EXCEPT !.rooms = (@ \ {r}) \cup {r2}]
         IN  IF key = Undefined THEN [mm |-> [mm EXCEPT ![matchId] = <<m1>>], result |-> "throw"]
             ELSE IF key \in match.players[playerId][1].roomsExplored
             THEN [mm |-> [mm EXCEPT ![matchId] = <<m1>>], result |-> "true"]
             ELSE [mm |-> [mm EXCEPT ![matchId] = <<m3>>], result |-> "true"]

----------------------------------------------------------------------------
(* ServerAuthority: anti-cheat bookkeeping.  sa is the pair of its two maps, *)
(* [suspicious |-> suspiciousPlayers, actions |-> playerActions].             *)

maxActionsPerSecond == 10
ActionWindow == 10000

\* flagSuspiciousActivity: count++ (the returned kick / flag / warn object is
\* discarded by every caller)
\* the value flagSuspiciousActivity returns once the count is the given one
flagAction(count) ==
    IF count >= autoKickThreshold THEN "kick"
    ELSE IF count >= suspiciousActionThreshold THEN "flag"
    ELSE "warn"

flagSuspiciousActivity(sa, playerId) ==
    [sa EXCEPT !.suspicious[playerId] = @ + 1]

\* actions.length / 10 > maxActionsPerSecond
checkActionFrequency(sa, playerId, actions) ==
    IF Len(actions) > 10 * maxActionsPerSecond
    THEN flagSuspiciousActivity(sa, playerId)
    ELSE sa

recordPlayerAction(sa, playerId, t) ==
    LET appended == Append(sa.actions[playerId], t)
        recentActions == SelectSeq(appended, LAMBDA ts : ts > t - ActionWindow)
    IN  checkActionFrequency([sa EXCEPT !.actions[playerId] = recentActions],
                             playerId, recentActions)

----------------------------------------------------------------------------
(* ServerAuthority.validateMovement.  playerData is the object the caller   *)
(* passes; a member it does not have reads as undefined.                    *)

\* playerData.lastMoveTime || timestamp
LastMoveTimeOr(playerData, timestamp) ==
    IF "lastMoveTime" \in DOMAIN playerData /\ playerData.lastMoveTime # 0
    THEN playerData.lastMoveTime
    ELSE timestamp

\* playerData.lastValidPosition || fromPos
LastValidPositionOr(playerData, fromPos) ==
    IF "lastValidPosition" \in DOMAIN playerData
    THEN playerData.lastValidPosition
    ELSE fromPos

\* result: <<>> for null, else <<position>>; branch: the path taken
validateMovement(sa, playerId, fromPos, toPos, timestamp, playerData) ==
    LET distSq == calculateDistanceSq(fromPos, toPos)
        timeDelta == timestamp - LastMoveTimeOr(playerData, timestamp)
    IN  IF ~isPositionInBounds(toPos)
        THEN [sa |-> flagSuspiciousActivity(sa, playerId), result |-> <<>>,
              branch |-> "OUT_OF_BOUNDS"]
        ELSE IF ExceedsMaxMovementDistance(distSq, timeDelta)
        THEN [sa |-> flagSuspiciousActivity(sa, playerId),
              result |-> <<LastValidPositionOr(playerData, fromPos)>>,
              branch |-> "SPEED_HACK"]
        ELSE IF hasObstacleCollision(fromPos, toPos)
        THEN [sa |-> flagSuspiciousActivity(sa, playerId),
              result |-> <<LastValidPositionOr(playerData, fromPos)>>,
              branch |-> "WALL_HACK"]
        ELSE [sa |-> recordPlayerAction(sa, playerId, now), result |-> <<toPos>>,
              branch |-> "VALID"]

----------------------------------------------------------------------------
(* ServerAuthority: combat *)

baseDamage == 15
Max(a, b) == IF a >= b THEN a ELSE b
Min(a, b) == IF a <= b THEN a ELSE b

\* calculateDamage without the final clamp to [minDamagePerHit, maxDamagePerHit]
calculateDamageUnclamped(attack, defense, jitter) ==
    LET attackPower == IF attack = 0 THEN 10 ELSE attack
        def == IF defense = 0 THEN 5 ELSE defense
    IN  Max(1, baseDamage + attackPower - def) + jitter

\* calculateDamage on the two stats read (stats?.attack || 10, stats?.defense || 5)
\* and the draw jitter = floor(random * 5) - 2
calculateDamage(attack, defense, jitter) ==
    LET attackPower == IF attack = 0 THEN 10 ELSE attack
        def == IF defense = 0 THEN 5 ELSE defense
        finalDamage == Max(1, baseDamage + attackPower - def) + jitter
    IN  Max(minDamagePerHit, Min(maxDamagePerHit, finalDamage))

\* ServerAuthority.handlePlayerDeath without the killer's kills++
saHandlePlayerDeathNoKill(pl, deadPlayerId, killerId, timestamp) ==
    IF pl[deadPlayerId] # <<>>
    THEN [pl EXCEPT ![deadPlayerId][1].gameState.alive = FALSE,
                    ![deadPlayerId][1].gameState.deathTime = <<timestamp>>,
                    ![deadPlayerId][1].gameState.killedBy = <<killerId>>,
                    ![deadPlayerId][1].status = "dead"]
    ELSE pl

\* ServerAuthority.handlePlayerDeath
saHandlePlayerDeath(pl, deadPlayerId, killerId, timestamp) ==
    LET pl1 == IF pl[deadPlayerId] # <<>>
               THEN [pl EXCEPT ![deadPlayerId][1].gameState.alive = FALSE,
                               ![deadPlayerId][1].gameState.deathTime = <<timestamp>>,
                               ![deadPlayerId][1].gameState.killedBy = <<killerId>>,
                               ![deadPlayerId][1].status = "dead"]
               ELSE pl
    IN  IF pl1[killerId] # <<>>
        THEN [pl1 EXCEPT ![killerId][1].gameState.kills = @ + 1]
        ELSE pl1

\* applyCombatDamage: the session map afterwards and the combat result
applyCombatDamage(pl, attackerId, targetId, damage, timestamp) ==
    LET pl1 == [pl EXCEPT ![attackerId][1].gameState.lastAttackTime = timestamp,
                          ![attackerId][1].gameState.inCombat = TRUE,
                          ![attackerId][1].gameState.lastCombatTime = timestamp]
        oldHealth == pl1[targetId][1].gameState.health
        newHealth == Max(0, oldHealth - damage)
        pl2 == [pl1 EXCEPT ![targetId][1].gameState.health = newHealth,
                           ![targetId][1].gameState.inCombat = TRUE,
                           ![targetId][1].gameState.lastCombatTime = timestamp]
        isDead == newHealth <= 0
    IN  [players |-> IF isDead THEN saHandlePlayerDeath(pl2, targetId, attackerId, timestamp)
                     ELSE pl2,
         result |-> [attackerId |-> attackerId, targetId |-> targetId, damage |-> damage,
                     oldHealth |-> oldHealth, newHealth |-> newHealth, isDead |-> isDead,
                     timestamp |-> timestamp]]

Registered(pl, id) == id \in PlayerIds /\ pl[id] # <<>>

\* validateCombatAction: result is <<>> for null, else <<combat result>>
validateCombatAction(sa, pl, attackerId, targetId, timestamp, jitter) ==
    IF ~Registered(pl, attackerId) \/ ~Registered(pl, targetId)
    THEN [sa |-> flagSuspiciousActivity(sa, attackerId), players |-> pl, result |-> <<>>,
          branch |-> "INVALID_TARGET"]
    ELSE LET attacker == pl[attackerId][1]
             target == pl[targetId][1]
             timeSinceLastAttack == timestamp - attacker.gameState.lastAttackTime
             distSq == calculateDistanceSq(attacker.gameState.position,
                                           target.gameState.position)
             damage == calculateDamage(attacker.gameState.stats.attack,
                                       target.gameState.stats.defense, jitter)
             applied == applyCombatDamage(pl, attackerId, targetId, damage, timestamp)
         IN  IF attacker.gameState.health <= 0
             THEN [sa |-> flagSuspiciousActivity(sa, attackerId), players |-> pl,
                   result |-> <<>>, branch |-> "DEAD_PLAYER_ACTION"]
             ELSE IF timeSinceLastAttack < attackCooldown
             THEN [sa |-> flagSuspiciousActivity(sa, attackerId), players |-> pl,
                   result |-> <<>>, branch |-> "ATTACK_SPEED_HACK"]
             ELSE IF distSq # NaN /\ distSq > maxAttackRange * maxAttackRange
             THEN [sa |-> flagSuspiciousActivity(sa, attackerId), players |-> pl,
                   result |-> <<>>, branch |-> "RANGE_HACK"]
             ELSE [sa |-> recordPlayerAction(sa, attackerId, now),
                   players |-> applied.players, result |-> <<applied.result>>,
                   branch |-> "VALID"]

----------------------------------------------------------------------------
(* ServerAuthority: items.  A world item is stored in gameItems under the   *)
(* key spawnItem generated, while its id member is the template's id (the   *)
(* template is spread over the generated id).  Ids and keys are tuples:     *)
(* <<template>> for 'template', <<template, n>> for 'template_n' and        *)
(* <<"dropped">> \o id \o <<t>> for 'dropped_<id>_<t>'.                     *)

maxSlots == 20
maxPickupRange == 30
MaxWorldItems == 3      \* world items explored
MaxSlotsUsed == 21      \* inventory slots explored per player

\* itemDatabase[templateId], the members the item operations read
itemDatabase(templateId) ==
    CASE templateId = "health_potion" -> [type |-> "CONSUMABLE", health |-> 50]
      [] templateId = "leather_armor" -> [type |-> "ARMOR", health |-> 0]
      [] templateId = "iron_ore" -> [type |-> "MATERIAL", health |-> 0]

\* itemTypes[type].stackable
stackable(type) == type \in {"CONSUMABLE", "MATERIAL"}
\* itemTypes[type].maxStack
maxStack(type) ==
    CASE type = "CONSUMABLE" -> 99 [] type = "MATERIAL" -> 999 [] OTHER -> 1

\* spawnItem, for the draws of position and quantity given
spawnItem(templateId, itemIdCounter, position, quantity) ==
    [key |-> <<templateId, itemIdCounter>>,
     item |-> [id |-> <<templateId>>, templateId |-> templateId,
               type |-> itemDatabase(templateId).type,
               health |-> itemDatabase(templateId).health,
               position |-> position,
               quantity |-> IF stackable(itemDatabase(templateId).type) THEN quantity ELSE 1,
               pickedUpAt |-> 0, droppedBy |-> ""]]

\* gameItems.has / get / set / delete on the set of [key, item] entries
HasItem(items, key) == \E e \in items : e.key = key
ItemAt(items, key) == (CHOOSE e \in items : e.key = key).item
ItemsDelete(items, key) == {e \in items : e.key # key}
ItemsSet(items, key, item) == ItemsDelete(items, key) \cup {[key |-> key, item |-> item]}

\* initializePlayerInventory: the inventory map afterwards
initializePlayerInventory(inv, playerId, t) ==
    IF inv[playerId] # <<>> THEN inv
    ELSE [inv EXCEPT ![playerId] = <<[items |-> <<>>, equipped |-> {}, createdAt |-> t]>>]

\* slots are kept in insertion order, as Map iterates them
SlotsOf(inventory) == {inventory.items[i].slot : i \in 1..Len(inventory.items)}
\* findItemInInventory: <<>> for null, else <<slot>>
findItemInInventory(inv, playerId, templateId) ==
    IF inv[playerId] = <<>> THEN <<>>
    ELSE LET found == SelectSeq(inv[playerId][1].items,
                                LAMBDA e : e.item.templateId = templateId)
         IN  IF found = <<>> THEN <<>> ELSE <<found[1].slot>>
\* findItemSlotInInventory: <<>> for null, else <<slot>>
findItemSlotInInventory(inv, playerId, itemId) ==
    IF inv[playerId] = <<>> THEN <<>>
    ELSE LET found == SelectSeq(inv[playerId][1].items, LAMBDA e : e.item.id = itemId)
         IN  IF found = <<>> THEN <<>> ELSE <<found[1].slot>>

SlotItem(inventory, slot) ==
    (CHOOSE i \in 1..Len(inventory.items) : inventory.items[i].slot = slot)
SlotsDelete(entries, slot) == SelectSeq(entries, LAMBDA e : e.slot # slot)
SlotsSet(entries, slot, item) ==
    IF \E i \in 1..Len(entries) : entries[i].slot = slot
    THEN [i \in 1..Len(entries) |->
            IF entries[i].slot = slot THEN [slot |-> slot, item |-> item] ELSE entries[i]]
    ELSE Append(entries, [slot |-> slot, item |-> item])

ItemResult(success, what) == <<[success |-> success, what |-> what]>>

\* if (newQuantity <= maxStack), taking one unit too many
fitsStackOffByOne(newQuantity, type) == newQuantity <= maxStack(type) + 1
\* if (newQuantity <= maxStack)
fitsStack(newQuantity, type) == newQuantity <= maxStack(type)

\* pickupItem
pickupItem(sa, playerId, item, timestamp) ==
    LET inv1 == initializePlayerInventory(sa.playerInventories, playerId, now)
        inventory == inv1[playerId][1]
        sa1 == [sa EXCEPT !.playerInventories = inv1]
        existingSlot == findItemInInventory(inv1, playerId, item.templateId)
        \* if (existingSlot): slot 0 is falsy
        canStack == /\ stackable(item.type)
                    /\ existingSlot # <<>> /\ existingSlot[1] # 0
        idx == SlotItem(inventory, existingSlot[1])
        newQuantity == inventory.items[idx].item.quantity + item.quantity
        free == {i \in 0..(maxSlots - 1) : i \notin SlotsOf(inventory)}
        emptySlot == CHOOSE i \in free : \A j \in free : i <= j
    IN  IF Len(inventory.items) >= maxSlots
        THEN [sa |-> sa1, result |-> ItemResult(FALSE, "Inventory full")]
        ELSE IF canStack /\ fitsStack(newQuantity, item.type)
        THEN [sa |-> [sa1 EXCEPT
                        !.playerInventories[playerId][1].items[idx].item.quantity = newQuantity,
                        !.gameItems = ItemsDelete(@, item.id)],
              result |-> ItemResult(TRUE, "stacked")]
        ELSE IF free = {}
        THEN [sa |-> sa1, result |-> ItemResult(FALSE, "No empty slots")]
        ELSE [sa |-> [sa1 EXCEPT
                        !.playerInventories[playerId][1].items =
                            SlotsSet(@, emptySlot, [item EXCEPT !.pickedUpAt = timestamp]),
                        !.gameItems = ItemsDelete(@, item.id)],
              result |-> ItemResult(TRUE, "picked_up")]

\* applyItemEffects without the Math.min(maxHealth, ...) cap
applyItemEffectsUncapped(health, item) ==
    IF item.health # 0 THEN health + item.health ELSE health

\* applyItemEffects: the player's health afterwards (health is the one effect
\* the items of this model carry)
applyItemEffects(health, item) ==
    IF item.health # 0 THEN Min(maxHealth, health + item.health) ELSE health

\* useItem; key is where item lives in gameItems
useItem(sa, pl, playerId, key, item, timestamp) ==
    LET quantity == Max(0, item.quantity - 1)
        slot == findItemSlotInInventory(sa.playerInventories, playerId, item.id)
        sa1 == [sa EXCEPT !.gameItems = ItemsSet(@, key, [item EXCEPT !.quantity = quantity])]
    IN  IF sa.playerInventories[playerId] = <<>>
        THEN [sa |-> sa, players |-> pl, result |-> ItemResult(FALSE, "No inventory")]
        ELSE IF pl[playerId] = <<>>
        THEN [sa |-> sa, players |-> pl, result |-> ItemResult(FALSE, "Player not found")]
        ELSE IF item.type # "CONSUMABLE"
        THEN [sa |-> sa, players |-> pl, result |-> ItemResult(FALSE, "Item not usable")]
        ELSE [sa |-> IF quantity <= 0 /\ slot # <<>>
                     THEN [sa1 EXCEPT !.playerInventories[playerId][1].items =
                                          SlotsDelete(@, slot[1])]
                     ELSE sa1,
              players |-> [pl EXCEPT ![playerId][1].gameState.health =
                                         applyItemEffects(@, item)],
              result |-> ItemResult(TRUE, "consumed")]
getEquipmentSlot(item) ==
    CASE item.type = "WEAPON" -> "weapon" [] item.type = "ARMOR" -> "chest" [] OTHER -> "misc"

\* inventory.equipped.delete / set on the set of [slot, item] entries
EquippedDelete(equipped, slot) == {e \in equipped : e.slot # slot}
EquippedSet(equipped, slot, item) ==
    EquippedDelete(equipped, slot) \cup {[slot |-> slot, item |-> item]}

\* unequipItem
unequipItem(sa, playerId, item) ==
    IF sa.playerInventories[playerId] = <<>>
    THEN [sa |-> sa, result |-> ItemResult(FALSE, "No inventory")]
    ELSE [sa |-> [sa EXCEPT !.playerInventories[playerId][1].equipped =
                                EquippedDelete(@, getEquipmentSlot(item))],
          result |-> ItemResult(TRUE, "unequipped")]

\* equipItem: the slot's current item, if any, is unequipped first
equipItem(sa, playerId, item) ==
    IF sa.playerInventories[playerId] = <<>>
    THEN [sa |-> sa, result |-> ItemResult(FALSE, "No inventory")]
    ELSE IF item.type \notin {"WEAPON", "ARMOR"}
    THEN [sa |-> sa, result |-> ItemResult(FALSE, "Item not equippable")]
    ELSE [sa |-> [sa EXCEPT !.playerInventories[playerId][1].equipped =
                                EquippedSet(@, getEquipmentSlot(item), item)],
          result |-> ItemResult(TRUE, "equipped")]

\* player.gameState.position.x + (Math.random() - 0.5) * 10, for the draw 0.5:
\* NaN when the position object has no x
DroppedPosition(position) ==
    IF position.xy = Undefined
    THEN [xy |-> Undefined, world |-> Undefined, room |-> Undefined]
    ELSE FlatPos(position.xy[1], position.xy[2])

\* dropItem
dropItem(sa, pl, playerId, item, timestamp) ==
    LET slot == findItemSlotInInventory(sa.playerInventories, playerId, item.id)
        droppedId == <<"dropped">> \o item.id \o <<now>>
        worldItem == [item EXCEPT !.id = droppedId,
                                  !.position = DroppedPosition(pl[playerId][1].gameState.position),
                                  !.droppedBy = playerId]
        sa1 == IF slot # <<>>
               THEN [sa EXCEPT !.playerInventories[playerId][1].items = SlotsDelete(@, slot[1])]
               ELSE sa
    IN  IF sa.playerInventories[playerId] = <<>> \/ pl[playerId] = <<>>
        THEN [sa |-> sa, result |-> ItemResult(FALSE, "Player or inventory not found")]
        ELSE [sa |-> [sa1 EXCEPT !.gameItems = ItemsSet(@, droppedId, worldItem)],
              result |-> ItemResult(TRUE, "dropped")]

\* processItemAction: the switch on the client's actionType string
processItemAction(sa, pl, playerId, key, item, actionType, timestamp) ==
    CASE actionType = "pickup" ->
            pickupItem(sa, playerId, item, timestamp) @@ [players |-> pl]
      [] actionType = "use" -> useItem(sa, pl, playerId, key, item, timestamp)
      [] actionType = "drop" -> dropItem(sa, pl, playerId, item, timestamp) @@ [players |-> pl]
      [] actionType = "equip" -> equipItem(sa, playerId, item) @@ [players |-> pl]
      [] actionType = "unequip" -> unequipItem(sa, playerId, item) @@ [players |-> pl]
      [] OTHER -> [sa |-> sa, players |-> pl, result |-> ItemResult(FALSE, "Unknown action")]

\* validateItemAction: result is <<>> for null, else <<result object>>
validateItemAction(sa, pl, playerId, itemId, actionType, timestamp) ==
    IF pl[playerId] = <<>>
    THEN [sa |-> sa, players |-> pl, result |-> <<>>, branch |-> "NO_PLAYER"]
    ELSE IF pl[playerId][1].gameState.health <= 0
    THEN [sa |-> flagSuspiciousActivity(sa, playerId), players |-> pl, result |-> <<>>,
          branch |-> "DEAD_PLAYER_ITEM_USE"]
    ELSE IF ~HasItem(sa.gameItems, itemId)
    THEN [sa |-> flagSuspiciousActivity(sa, playerId), players |-> pl, result |-> <<>>,
          branch |-> "INVALID_ITEM"]
    ELSE LET item == ItemAt(sa.gameItems, itemId)
             distSq == calculateDistanceSq(pl[playerId][1].gameState.position, item.position)
             r == processItemAction(sa, pl, playerId, itemId, item, actionType, timestamp)
         IN  IF distSq # NaN /\ distSq > maxPickupRange * maxPickupRange
             THEN [sa |-> flagSuspiciousActivity(sa, playerId), players |-> pl,
                   result |-> <<>>, branch |-> "ITEM_RANGE_HACK"]
             ELSE [sa |-> r.sa, players |-> r.players, result |-> r.result,
                   branch |-> r.result[1].what]

----------------------------------------------------------------------------
(* GameServer *)

SA == [suspicious |-> suspiciousPlayers, actions |-> playerActions,
       gameItems |-> gameItems, playerInventories |-> playerInventories]

\* the model explores violation counts and action histories up to its bounds
WithinBounds(sa) ==
    /\ \A p \in PlayerIds :
          /\ sa.suspicious[p] <= MaxViolations
          /\ Len(sa.actions[p]) <= MaxActions
          /\ sa.playerInventories[p] # <<>> =>
                 Len(sa.playerInventories[p][1].items) <= MaxSlotsUsed
    /\ Cardinality(sa.gameItems) <= MaxWorldItems

\* where inventories are not the subject, a scenario holds few stacks
MaxFewSlots == 2
FewSlots ==
    \A p \in PlayerIds :
        playerInventories'[p] # <<>> => Len(playerInventories'[p][1].items) <= MaxFewSlots

SetSA(sa) ==
    /\ WithinBounds(sa)
    /\ suspiciousPlayers' = sa.suspicious
    /\ playerActions' = sa.actions
    /\ gameItems' = sa.gameItems
    /\ playerInventories' = sa.playerInventories

\* message.timestamp || Date.now(): an absent (or zero) timestamp is written 0
TimestampOf(message) == IF message.timestamp = 0 THEN now ELSE message.timestamp

getConnectedPlayersList(pl, pbm, matchId) ==
    SelectSeq(pbm[matchId], LAMBDA p : pl[p] # <<>> /\ pl[p][1].isAlive)

\* updatePlayerStatus: the session map and the messages sent
updatePlayerStatus(pl, pbm, playerId, status) ==
    IF pl[playerId] = <<>>
    THEN [players |-> pl, out |-> <<>>]
    ELSE LET pl1 == [pl EXCEPT ![playerId][1].status = status,
                                ![playerId][1].lastPing = now]
         IN  [players |-> pl1,
              out |-> broadcastToMatch(pl1, pbm, pl1[playerId][1].matchId,
                                       "PLAYER_STATUS_UPDATE",
                                       [playerId |-> playerId, status |-> status])]

\* handlePlayerDisconnection: players, playersByMatch and matches afterwards
handlePlayerDisconnection(pl, pbm, ma, playerId) ==
    IF pl[playerId] = <<>>
    THEN [players |-> pl, playersByMatch |-> pbm, matches |-> ma]
    ELSE LET matchId == pl[playerId][1].matchId
             left == SeqWithout(pbm[matchId], playerId)
         IN  [players |-> [pl EXCEPT ![playerId] = <<>>],
              playersByMatch |-> IF pbm[matchId] # <<>>
                                 THEN [pbm EXCEPT ![matchId] = left]
                                 ELSE pbm,
              matches |-> IF pbm[matchId] # <<>> /\ left = <<>>
                          THEN [ma EXCEPT ![matchId] = <<>>]
                          ELSE ma]

\* sendToPlayer when ws.send throws for the sessions in `broken`: the catch block
\* calls handlePlayerDisconnection. st holds players, playersByMatch, matches and
\* the messages delivered so far.
sendToPlayerThrowing(st, playerId, type, body, broken) ==
    IF st.players[playerId] = <<>> \/ ~st.players[playerId][1].isAlive THEN st
    ELSE IF playerId \in broken
    THEN LET d == handlePlayerDisconnection(st.players, st.playersByMatch,
                                            st.matches, playerId)
         IN  [players |-> d.players, playersByMatch |-> d.playersByMatch,
              matches |-> d.matches, out |-> st.out]
    ELSE [st EXCEPT !.out = Append(@, Msg(playerId, type, body))]

\* a broadcast loop that gives up at the first send that throws
RECURSIVE broadcastToMatchAborting(_, _, _, _, _)
broadcastToMatchAborting(st, ids, type, body, broken) ==
    IF ids = <<>> THEN st
    ELSE IF Head(ids) \in broken /\ st.players[Head(ids)] # <<>>
    THEN sendToPlayerThrowing(st, Head(ids), type, body, broken)
    ELSE broadcastToMatchAborting(sendToPlayerThrowing(st, Head(ids), type, body, broken),
                                  Tail(ids), type, body, broken)

\* broadcastToMatch over the ids of the match's Set in insertion order; a release
\* inside the loop deletes only the id being visited, so the ids still to visit
\* are the ones of the Set at the start
RECURSIVE broadcastToMatchThrowing(_, _, _, _, _)
broadcastToMatchThrowing(st, ids, type, body, broken) ==
    IF ids = <<>> THEN st
    ELSE broadcastToMatchThrowing(sendToPlayerThrowing(st, Head(ids), type, body, broken),
                                  Tail(ids), type, body, broken)

\* a client can name the default match id or one the server has generated
KnownMatchIds == {"lobby"} \cup {Uuid(n) : n \in 1..uuidCounter}

MaxTransports == 2

HandleNewConnection(playerId, matchId, seed) ==
    LET conn == NewPlayerConnection(matchId, now)
        pl1 == [players EXCEPT ![playerId] = <<conn>>]
        pbm1 == [playersByMatch EXCEPT ![matchId] = SetAdd(@, playerId)]
        exists == mmMatches[matchId] # <<>>
        newId == Uuid(uuidCounter + 1)
        mm1 == IF exists
               THEN updatePlayerPosition(mmMatches, matchId, playerId,
                        [world |-> conn.gameState.position.world,
                         room |-> conn.gameState.position.room], now).mm
               ELSE [mmMatches EXCEPT ![newId] =
                        <<startMatch(createMatch(newId, seed, <<playerId>>, now), now)>>]
        matchState == mm1[matchId]
        out1 == sendToPlayer(pl1, playerId, "CONNECTION_ESTABLISHED",
                    [connectedPlayers |-> getConnectedPlayersList(pl1, pbm1, matchId),
                     mapData |-> IF matchState = <<>> THEN <<>>
                                 ELSE <<[seed |-> matchState[1].seed]>>])
        st == updatePlayerStatus(pl1, pbm1, playerId, "connected")
        out3 == broadcastToMatchExcluding(st.players, pbm1, matchId, "PLAYER_JOINED",
                    [playerId |-> playerId], playerId)
    IN  /\ matchId \in KnownMatchIds
        /\ transports[playerId] < MaxTransports
        /\ ~exists => uuidCounter < MaxMatches
        /\ transports' = [transports EXCEPT ![playerId] = @ + 1]
        /\ players' = st.players
        /\ playersByMatch' = pbm1
        /\ mmMatches' = mm1
        /\ uuidCounter' = IF exists THEN uuidCounter ELSE uuidCounter + 1
        /\ outbox' = out1 \o st.out \o out3
        /\ timers' = IF exists THEN timers
                      ELSE timers \cup {[kind |-> "END", matchId |-> newId,
                                         due |-> now + MATCH_DURATION]}
        /\ last' = [type |-> "CONNECT", playerId |-> playerId, verdict |-> "CONNECTED"]
        /\ UNCHANGED <<now, matches, suspiciousPlayers, playerActions,
                   gameItems, playerInventories, lastAcceptedAttack>>

heartbeatTimeout == 60000
CLEANUP_INTERVAL == 30000
cleanupAge == 300000

\* ws 'close' (or 'error') of a socket whose handlers are bound to playerId
HandleClose(playerId) ==
    LET d == handlePlayerDisconnection(players, playersByMatch, matches, playerId)
    IN  /\ transports[playerId] > 0
        /\ transports' = [transports EXCEPT ![playerId] = @ - 1]
        /\ players' = d.players
        /\ playersByMatch' = d.playersByMatch
        /\ matches' = d.matches
        /\ outbox' = <<>>
        /\ last' = [type |-> "CLOSE", playerId |-> playerId, verdict |-> "CLOSED"]
        /\ UNCHANGED <<timers, now, mmMatches, uuidCounter, suspiciousPlayers, playerActions,
                   gameItems, playerInventories, lastAcceptedAttack>>

AdvanceClock(d) ==
    /\ now + d <= MaxNow
    /\ now' = now + d
    /\ outbox' = <<>>
    /\ last' = [type |-> "CLOCK", playerId |-> "", verdict |-> ""]
    /\ UNCHANGED <<timers, transports, players, playersByMatch, matches, mmMatches, uuidCounter,
                   suspiciousPlayers, playerActions,
                   gameItems, playerInventories, lastAcceptedAttack>>

\* cleanupInactivePlayers: the test made on every session
IsInactiveAtTimeout(playerConnection, t) ==
    t - playerConnection.lastPing >= heartbeatTimeout /\ playerConnection.isAlive

IsInactive(playerConnection, t) ==
    t - playerConnection.lastPing > heartbeatTimeout /\ playerConnection.isAlive

\* the loop of cleanupInactivePlayers over the ids still to visit; the releases of
\* different players do not depend on their order
RECURSIVE cleanupInactivePlayers(_, _)
cleanupInactivePlayers(st, ids) ==
    IF ids = {} THEN st
    ELSE LET p == CHOOSE x \in ids : TRUE
             d == handlePlayerDisconnection(st.players, st.playersByMatch, st.matches, p)
         IN  cleanupInactivePlayers(
                 IF st.players[p] # <<>> /\ IsInactive(st.players[p][1], now)
                 THEN [players |-> d.players, playersByMatch |-> d.playersByMatch,
                       matches |-> d.matches]
                 ELSE st,
                 ids \ {p})

\* the cleanupInterval timer fires: serverAuthority.cleanup(), then
\* cleanupInactivePlayers(). Violations carry the time they were recorded at, none
\* before EpochStart: while the cutoff lies before EpochStart, cleanup() keeps
\* every violation and the counts are the same.
CleanupTick ==
    LET cutoff == now - cleanupAge
        st == cleanupInactivePlayers(
                  [players |-> players, playersByMatch |-> playersByMatch,
                   matches |-> matches], PlayerIds)
    IN  /\ cutoff < EpochStart
        /\ playerActions' = [p \in PlayerIds |->
                                SelectSeq(playerActions[p], LAMBDA ts : ts > cutoff)]
        /\ players' = st.players
        /\ playersByMatch' = st.playersByMatch
        /\ matches' = st.matches
        /\ outbox' = <<>>
        /\ last' = [type |-> "CLEANUP", playerId |-> "", verdict |-> ""]
        /\ UNCHANGED <<timers, now, transports, mmMatches, uuidCounter, suspiciousPlayers,
                       gameItems, playerInventories, lastAcceptedAttack>>

\* handlePlayerMessage -> handleMoveRequest
HandleMoveRequest(playerId, message) ==
    /\ transports[playerId] > 0
    /\ IF ~HasSession(playerId) \/ ~GS(playerId).alive
       THEN /\ outbox' = <<>>
            /\ last' = [type |-> "MOVE_REQUEST", playerId |-> playerId, verdict |-> "DROPPED"]
            /\ UNCHANGED <<players, suspiciousPlayers, playerActions,
                           gameItems, playerInventories>>
       ELSE LET fromPos == GS(playerId).position
                timestamp == TimestampOf(message)
                v == validateMovement(SA, playerId, fromPos, message.position,
                                      timestamp, Session(playerId))
            IN  /\ SetSA(v.sa)
                /\ last' = [type |-> "MOVE_REQUEST", playerId |-> playerId, verdict |-> v.branch]
                /\ IF v.result # <<>>
                   THEN /\ players' = [players EXCEPT
                               ![playerId][1].gameState.position = v.result[1],
                               ![playerId][1].gameState.lastValidPosition = v.result[1],
                               ![playerId][1].gameState.aliased = TRUE,
                               ![playerId][1].gameState.lastMoveTime = timestamp]
                        /\ outbox' = broadcastToMatch(players, playersByMatch,
                               Session(playerId).matchId, "PLAYER_MOVED",
                               [playerId |-> playerId, position |-> v.result[1]])
                   ELSE /\ players' = players
                        /\ outbox' = sendToPlayer(players, playerId, "POSITION_CORRECTION",
                               [position |-> GS(playerId).lastValidPosition])
    /\ UNCHANGED <<timers, now, transports, playersByMatch, matches, mmMatches, uuidCounter,
                   lastAcceptedAttack>>

\* GameServer.handlePlayerDeath: the session map and the messages sent
gsHandlePlayerDeath(pl, pbm, deadPlayerId, killerId, timestamp) ==
    IF pl[deadPlayerId] = <<>>
    THEN [players |-> pl, out |-> <<>>]
    ELSE LET pl1 == [pl EXCEPT ![deadPlayerId][1].gameState.alive = FALSE,
                               ![deadPlayerId][1].gameState.health = 0,
                               ![deadPlayerId][1].gameState.deathTime = <<timestamp>>,
                               ![deadPlayerId][1].status = "dead"]
         IN  [players |-> pl1,
              out |-> broadcastToMatch(pl1, pbm, pl1[deadPlayerId][1].matchId, "PLAYER_DIED",
                          [deadPlayerId |-> deadPlayerId, killerId |-> killerId])]

\* handlePlayerMessage -> handleAttackRequest; jitter is the draw of Math.random
HandleAttackRequest(playerId, message, jitter) ==
    /\ transports[playerId] > 0
    /\ IF ~HasSession(playerId) \/ ~GS(playerId).alive
       THEN /\ outbox' = <<>>
            /\ last' = [type |-> "ATTACK_REQUEST", playerId |-> playerId, verdict |-> "DROPPED"]
            /\ UNCHANGED <<players, suspiciousPlayers, playerActions,
                           gameItems, playerInventories, lastAcceptedAttack>>
       ELSE LET timestamp == TimestampOf(message)
                v == validateCombatAction(SA, players, playerId, message.targetId,
                                          timestamp, jitter)
                matchId == Session(playerId).matchId
            IN  /\ SetSA(v.sa)
                /\ last' = [type |-> "ATTACK_REQUEST", playerId |-> playerId,
                            verdict |-> v.branch]
                /\ lastAcceptedAttack' = IF v.result # <<>>
                                         THEN [lastAcceptedAttack EXCEPT ![playerId] = timestamp]
                                         ELSE lastAcceptedAttack
                /\ IF v.result # <<>>
                   THEN LET out1 == broadcastToMatch(v.players, playersByMatch, matchId,
                                        "COMBAT_RESULT", v.result[1])
                            d == gsHandlePlayerDeath(v.players, playersByMatch,
                                        message.targetId, playerId, timestamp)
                        IN  IF v.result[1].isDead
                            THEN players' = d.players /\ outbox' = out1 \o d.out
                            ELSE players' = v.players /\ outbox' = out1
                   ELSE /\ players' = players
                        /\ outbox' = sendToPlayer(players, playerId, "ATTACK_REJECTED",
                                                  [reason |-> "Invalid attack request"])
    /\ UNCHANGED <<timers, now, transports, playersByMatch, matches, mmMatches, uuidCounter>>

\* handlePlayerMessage -> handleItemAction
HandleItemAction(playerId, message) ==
    /\ transports[playerId] > 0
    /\ IF ~HasSession(playerId) \/ ~GS(playerId).alive
       THEN /\ outbox' = <<>>
            /\ last' = [type |-> "ITEM_ACTION", playerId |-> playerId, verdict |-> "DROPPED"]
            /\ UNCHANGED <<players, suspiciousPlayers, playerActions,
                           gameItems, playerInventories>>
       ELSE LET v == validateItemAction(SA, players, playerId, message.itemId,
                                        message.actionType, TimestampOf(message))
            IN  /\ SetSA(v.sa)
                /\ players' = v.players
                /\ last' = [type |-> "ITEM_ACTION", playerId |-> playerId,
                            verdict |-> v.branch]
                /\ outbox' = IF v.result # <<>>
                             THEN broadcastToMatch(v.players, playersByMatch,
                                      Session(playerId).matchId, "ITEM_ACTION_RESULT",
                                      [playerId |-> playerId, itemId |-> message.itemId,
                                       actionType |-> message.actionType,
                                       result |-> v.result[1]])
                             ELSE sendToPlayer(players, playerId, "ITEM_ACTION_REJECTED",
                                      [itemId |-> message.itemId,
                                       actionType |-> message.actionType])
    /\ UNCHANGED <<timers, now, transports, playersByMatch, matches, mmMatches, uuidCounter,
                   lastAcceptedAttack>>

allowedStatuses == {"ready", "not_ready", "in_game", "spectating"}

\* handlePlayerMessage -> handleStatusUpdate
HandleStatusUpdate(playerId, message) ==
    LET allowed == message.status \in allowedStatuses
        st == updatePlayerStatus(players, playersByMatch, playerId, message.status)
    IN  /\ transports[playerId] > 0
        /\ IF HasSession(playerId) /\ allowed
           THEN players' = st.players /\ outbox' = st.out
           ELSE players' = players /\ outbox' = <<>>
        /\ last' = [type |-> "STATUS_UPDATE", playerId |-> playerId,
                    verdict |-> IF ~HasSession(playerId) THEN "DROPPED"
                                ELSE IF allowed THEN "UPDATED" ELSE "INVALID_STATUS"]
        /\ UNCHANGED <<timers, now, transports, playersByMatch, matches, mmMatches, uuidCounter,
                       suspiciousPlayers, playerActions,
                   gameItems, playerInventories, lastAcceptedAttack>>

\* handlePlayerMessage -> handleStatusUpdate -> updatePlayerStatus when ws.send
\* throws for the sessions in `broken`
HandleStatusUpdateThrowing(playerId, message, broken) ==
    LET allowed == message.status \in allowedStatuses
        pl1 == [players EXCEPT ![playerId][1].status = message.status,
                               ![playerId][1].lastPing = now]
        st == broadcastToMatchThrowing(
                  [players |-> pl1, playersByMatch |-> playersByMatch,
                   matches |-> matches, out |-> <<>>],
                  playersByMatch[pl1[playerId][1].matchId],
                  "PLAYER_STATUS_UPDATE",
                  [playerId |-> playerId, status |-> message.status], broken)
    IN  /\ transports[playerId] > 0
        /\ IF HasSession(playerId) /\ allowed
           THEN /\ players' = st.players
                /\ playersByMatch' = st.playersByMatch
                /\ matches' = st.matches
                /\ outbox' = st.out
           ELSE /\ outbox' = <<>>
                /\ UNCHANGED <<players, playersByMatch, matches>>
        /\ last' = [type |-> "STATUS_UPDATE", playerId |-> playerId,
                    verdict |-> IF ~HasSession(playerId) THEN "DROPPED"
                                ELSE IF allowed THEN "UPDATED" ELSE "INVALID_STATUS"]
        /\ UNCHANGED <<timers, now, transports, mmMatches, uuidCounter,
                       suspiciousPlayers, playerActions,
                       gameItems, playerInventories, lastAcceptedAttack>>

\* handlePlayerMessage -> handlePlayerReady(playerId, matchId)
HandlePlayerReady(playerId) ==
    LET known == HasSession(playerId) /\ matches[Session(playerId).matchId] # <<>>
        pl1 == [players EXCEPT ![playerId][1].gameState.ready = TRUE]
        st == updatePlayerStatus(pl1, playersByMatch, playerId, "ready")
    IN  /\ transports[playerId] > 0
        /\ IF known
           THEN players' = st.players /\ outbox' = st.out
           ELSE players' = players /\ outbox' = <<>>
        /\ last' = [type |-> "PLAYER_READY", playerId |-> playerId,
                    verdict |-> IF known THEN "READY" ELSE "DROPPED"]
        /\ UNCHANGED <<timers, now, transports, playersByMatch, matches, mmMatches, uuidCounter,
                       suspiciousPlayers, playerActions,
                   gameItems, playerInventories, lastAcceptedAttack>>

\* handlePlayerMessage -> handleActionQueue: logs only
HandleQueueAction(playerId) ==
    /\ transports[playerId] > 0
    /\ outbox' = <<>>
    /\ last' = [type |-> "QUEUE_ACTION", playerId |-> playerId,
                verdict |-> IF HasSession(playerId) /\ matches[Session(playerId).matchId] # <<>>
                            THEN "LOGGED" ELSE "DROPPED"]
    /\ UNCHANGED <<timers, now, transports, players, playersByMatch, matches, mmMatches, uuidCounter,
                   suspiciousPlayers, playerActions,
                   gameItems, playerInventories, lastAcceptedAttack>>

\* the matches of GameServer.matches the tick handlers do not skip
ActiveMatches == {m \in MatchIds : matches[m] # <<>> /\ matches[m][1].status = "ACTIVE"}

\* the broadcasts of one tick, match by match
RECURSIVE TickBroadcast(_, _, _)
TickBroadcast(ms, ma, type) ==
    IF ms = {} THEN <<>>
    ELSE LET m == CHOOSE x \in ms : TRUE
         IN  broadcastToMatch(players, playersByMatch, m, type,
                              [matchId |-> m, round |-> ma[m][1].roundNumber])
             \o TickBroadcast(ms \ {m}, ma, type)

\* the autoAttackInterval timer fires: processAutoAttackTick
ProcessAutoAttackTick ==
    LET ma1 == [m \in MatchIds |->
                   IF m \in ActiveMatches
                   THEN <<[matches[m][1] EXCEPT !.roundNumber = @ + 1]>>
                   ELSE matches[m]]
    IN  /\ matches' = ma1
        /\ outbox' = TickBroadcast(ActiveMatches, ma1, "AUTOATTACK_TICK")
        /\ last' = [type |-> "AUTOATTACK_TICK", playerId |-> "", verdict |-> ""]
        /\ UNCHANGED <<timers, now, transports, players, playersByMatch, mmMatches, uuidCounter,
                       suspiciousPlayers, playerActions,
                       gameItems, playerInventories, lastAcceptedAttack>>

\* the skillInterval timer fires: processSkillTick
ProcessSkillTick ==
    /\ outbox' = TickBroadcast(ActiveMatches, matches, "SKILL_TICK")
    /\ last' = [type |-> "SKILL_TICK", playerId |-> "", verdict |-> ""]
    /\ UNCHANGED <<timers, now, transports, players, playersByMatch, matches, mmMatches, uuidCounter,
                   suspiciousPlayers, playerActions,
                   gameItems, playerInventories, lastAcceptedAttack>>

\* delay of the removal endMatch schedules
cleanupDelay == 30000

\* survivalTime of one player in calculateMatchStats; t is Date.now()
survivalTime(match, playerState, t) ==
    LET endOrNow == IF match.endTime = Undefined THEN t ELSE match.endTime[1]
    IN  IF playerState.status = "ALIVE" THEN endOrNow - match.startTime
        ELSE (IF playerState.deathTime = Undefined THEN endOrNow
              ELSE playerState.deathTime[1]) - match.startTime

\* the winner block's test with the tie decided for every status
takesWinnerOnAnyTie(playerState, maxKills) == playerState.kills >= maxKills

\* the winner block's test: more kills, or as many and still alive
takesWinner(playerState, maxKills) ==
    \/ playerState.kills > maxKills
    \/ (playerState.kills = maxKills /\ playerState.status = "ALIVE")

\* the for-of loop of calculateMatchStats over the players in insertion order, with
\* the winner block before the record-holder blocks and the kill record compared
\* with the maxKills the winner block wrote; a holder is <<>> (null) or <<playerId>>
\* and stands for that player's playerStats object
RECURSIVE statsLoop(_, _, _, _)
statsLoop(match, ids, t, acc) ==
    IF ids = <<>> THEN acc
    ELSE LET playerId == Head(ids)
             playerState == match.players[playerId][1]
             wins == takesWinner(playerState, acc.maxKills)
             maxKills1 == IF wins THEN playerState.kills ELSE acc.maxKills
             deadliest == playerState.kills > maxKills1
             explored == Cardinality(playerState.roomsExplored)
             survival == survivalTime(match, playerState, t)
         IN  statsLoop(match, Tail(ids), t,
                 [ maxKills |-> IF deadliest THEN playerState.kills ELSE maxKills1,
                   winner |-> IF wins THEN <<playerId>> ELSE acc.winner,
                   mostDeadlyPlayer |-> IF deadliest THEN <<playerId>>
                                        ELSE acc.mostDeadlyPlayer,
                   maxExploration |-> IF explored > acc.maxExploration THEN explored
                                      ELSE acc.maxExploration,
                   mostExplorativePlayer |-> IF explored > acc.maxExploration
                                             THEN <<playerId>> ELSE acc.mostExplorativePlayer,
                   maxItems |-> IF playerState.itemsCollected > acc.maxItems
                                THEN playerState.itemsCollected ELSE acc.maxItems,
                   mostCollectorPlayer |-> IF playerState.itemsCollected > acc.maxItems
                                           THEN <<playerId>> ELSE acc.mostCollectorPlayer,
                   longestSurvivalTime |-> IF survival > acc.longestSurvivalTime
                                           THEN survival ELSE acc.longestSurvivalTime,
                   longestSurvivor |-> IF survival > acc.longestSurvivalTime
                                       THEN <<playerId>> ELSE acc.longestSurvivor ])

\* calculateMatchStats at time t: the playerStats entries (combat, exploration and
\* survival fields), the winner and the record holders
calculateMatchStats(match, t) ==
    LET acc == statsLoop(match, match.playerOrder, t,
                   [ maxKills |-> 0 - 1, winner |-> <<>>, mostDeadlyPlayer |-> <<>>,
                     maxExploration |-> 0 - 1, mostExplorativePlayer |-> <<>>,
                     maxItems |-> 0 - 1, mostCollectorPlayer |-> <<>>,
                     longestSurvivalTime |-> 0 - 1, longestSurvivor |-> <<>> ])
    IN  [ totalPlayers |-> Cardinality({p \in PlayerIds : match.players[p] # <<>>}),
          playerStats |-> [p \in PlayerIds |->
              IF match.players[p] = <<>> THEN <<>>
              ELSE <<[ kills |-> match.players[p][1].kills,
                       deaths |-> match.players[p][1].deaths,
                       itemsCollected |-> match.players[p][1].itemsCollected,
                       roomsExplored |-> Cardinality(match.players[p][1].roomsExplored),
                       finalStatus |-> match.players[p][1].status,
                       survived |-> match.players[p][1].status = "ALIVE",
                       survivalTime |-> survivalTime(match, match.players[p][1], t) ]>>],
          winner |-> acc.winner,
          mostDeadlyPlayer |-> acc.mostDeadlyPlayer,
          mostExplorativePlayer |-> acc.mostExplorativePlayer,
          mostCollectorPlayer |-> acc.mostCollectorPlayer,
          longestSurvivor |-> acc.longestSurvivor ]

\* endMatch without the removal it schedules
endMatchKeepingMatch(mm, tm, matchId, reason, t) ==
    IF mm[matchId] = <<>> THEN [mm |-> mm, timers |-> tm, result |-> <<>>]
    ELSE LET ended == [mm[matchId][1] EXCEPT !.status = "ENDED", !.endTime = <<t>>]
         IN  [ mm |-> [mm EXCEPT ![matchId] = <<ended>>],
               timers |-> tm,
               result |-> <<[matchId |-> matchId, reason |-> reason,
                             duration |-> t - ended.startTime,
                             stats |-> calculateMatchStats(ended, t)]>> ]

\* endMatch(matchId, reason) at time t: the registry, the pending timers and the
\* returned value (<<>> is null)
endMatch(mm, tm, matchId, reason, t) ==
    IF mm[matchId] = <<>> THEN [mm |-> mm, timers |-> tm, result |-> <<>>]
    ELSE LET ended == [mm[matchId][1] EXCEPT !.status = "ENDED", !.endTime = <<t>>]
         IN  [ mm |-> [mm EXCEPT ![matchId] = <<ended>>],
               timers |-> tm \cup {[kind |-> "DELETE", matchId |-> matchId,
                                    due |-> t + cleanupDelay]},
               result |-> <<[matchId |-> matchId, reason |-> reason,
                             duration |-> t - ended.startTime,
                             stats |-> calculateMatchStats(ended, t)]>> ]

\* a call of endMatch(matchId) from outside the timer
EndMatch(matchId) ==
    LET e == endMatch(mmMatches, timers, matchId, "COMPLETED", now)
    IN  /\ mmMatches' = e.mm
        /\ timers' = e.timers
        /\ outbox' = <<>>
        /\ last' = [type |-> "END_MATCH", playerId |-> "", matchId |-> matchId,
                    verdict |-> IF e.result = <<>> THEN "NULL" ELSE "COMPLETED",
                    result |-> e.result]
        /\ UNCHANGED <<now, transports, players, playersByMatch, matches, uuidCounter,
                       suspiciousPlayers, playerActions, gameItems, playerInventories,
                       lastAcceptedAttack>>

\* a setTimeout callback runs: no timer with an earlier due time is pending; the
\* END callback is endMatch(matchId, 'TIME_LIMIT'), the DELETE callback is
\* matches.delete(matchId)
FireTimer(timer) ==
    LET e == endMatch(mmMatches, timers \ {timer}, timer.matchId, "TIME_LIMIT", now)
    IN  /\ timer \in timers
        /\ now >= timer.due
        /\ \A other \in timers : other.due >= timer.due
        /\ IF timer.kind = "END"
           THEN /\ mmMatches' = e.mm
                /\ timers' = e.timers
                /\ last' = [type |-> "TIMER", playerId |-> "", matchId |-> timer.matchId,
                            verdict |-> IF e.result = <<>> THEN "NULL" ELSE "TIME_LIMIT",
                            result |-> e.result]
           ELSE /\ mmMatches' = [mmMatches EXCEPT ![timer.matchId] = <<>>]
                /\ timers' = timers \ {timer}
                /\ last' = [type |-> "TIMER", playerId |-> "", matchId |-> timer.matchId,
                            verdict |-> "DELETED", result |-> <<>>]
        /\ outbox' = <<>>
        /\ UNCHANGED <<now, transports, players, playersByMatch, matches, uuidCounter,
                       suspiciousPlayers, playerActions, gameItems, playerInventories,
                       lastAcceptedAttack>>

\* a call of createMatch(players) on its own: the match waits in status STARTING
CreateMatch(playerList, seed) ==
    /\ uuidCounter < MaxMatches
    /\ mmMatches' = [mmMatches EXCEPT ![Uuid(uuidCounter + 1)] =
                        <<createMatch(Uuid(uuidCounter + 1), seed, playerList, now)>>]
    /\ uuidCounter' = uuidCounter + 1
    /\ outbox' = <<>>
    /\ last' = [type |-> "CREATE_MATCH", playerId |-> "", matchId |-> Uuid(uuidCounter + 1),
                verdict |-> "STARTING"]
    /\ UNCHANGED <<now, transports, players, playersByMatch, matches, timers,
                   suspiciousPlayers, playerActions, gameItems, playerInventories,
                   lastAcceptedAttack>>

\* recordPlayerKill without the victim's death
recordPlayerKillSparingVictim(match, killerId, victimId, t) ==
    IF match.players[killerId] = <<>> \/ match.players[victimId] = <<>> THEN match
    ELSE [match EXCEPT !.players[killerId][1].kills = @ + 1,
                       !.players[killerId][1].firstKillTime = <<t>>]

\* recordPlayerKill on an existing match at time t: kills++ of the killer first, then
\* the victim's deaths++, status and deathTime, then the killer's firstKillTime
recordPlayerKill(match, killerId, victimId, t) ==
    IF match.players[killerId] = <<>> \/ match.players[victimId] = <<>> THEN match
    ELSE LET m1 == [match EXCEPT !.players[killerId][1].kills = @ + 1]
             m2 == [m1 EXCEPT !.players[victimId][1].deaths = @ + 1,
                              !.players[victimId][1].status = "DEAD",
                              !.players[victimId][1].deathTime = <<t>>]
         IN  IF m2.players[killerId][1].kills = 1
             THEN [m2 EXCEPT !.players[killerId][1].firstKillTime = <<t>>]
             ELSE m2

\* recordItemCollection on an existing match
recordItemCollection(match, playerId, quantity) ==
    IF match.players[playerId] = <<>> THEN match
    ELSE [match EXCEPT !.players[playerId][1].itemsCollected = @ + quantity]

\* a call of recordPlayerKill(matchId, killerId, victimId)
RecordPlayerKill(matchId, killerId, victimId) ==
    /\ mmMatches' = IF mmMatches[matchId] = <<>> THEN mmMatches
                    ELSE [mmMatches EXCEPT ![matchId] =
                              <<recordPlayerKill(@[1], killerId, victimId, now)>>]
    /\ outbox' = <<>>
    /\ last' = [type |-> "RECORD_KILL", playerId |-> killerId, matchId |-> matchId,
                verdict |-> IF mmMatches'[matchId] = mmMatches[matchId] THEN "FALSE" ELSE "TRUE"]
    /\ UNCHANGED <<now, transports, players, playersByMatch, matches, uuidCounter, timers,
                   suspiciousPlayers, playerActions, gameItems, playerInventories,
                   lastAcceptedAttack>>

\* a call of recordItemCollection(matchId, playerId, itemType, quantity)
RecordItemCollection(matchId, playerId, quantity) ==
    /\ mmMatches' = IF mmMatches[matchId] = <<>> THEN mmMatches
                    ELSE [mmMatches EXCEPT ![matchId] =
                              <<recordItemCollection(@[1], playerId, quantity)>>]
    /\ outbox' = <<>>
    /\ last' = [type |-> "RECORD_ITEM", playerId |-> playerId, matchId |-> matchId,
                verdict |-> IF mmMatches'[matchId] = mmMatches[matchId] THEN "FALSE" ELSE "TRUE"]
    /\ UNCHANGED <<now, transports, players, playersByMatch, matches, uuidCounter, timers,
                   suspiciousPlayers, playerActions, gameItems, playerInventories,
                   lastAcceptedAttack>>

\* a call of updatePlayerPosition(matchId, playerId, position)
UpdatePlayerPosition(matchId, playerId, position) ==
    LET u == updatePlayerPosition(mmMatches, matchId, playerId, position, now)
    IN  /\ mmMatches' = u.mm
        /\ outbox' = <<>>
        /\ last' = [type |-> "UPDATE_POSITION", playerId |-> playerId, matchId |-> matchId,
                    verdict |-> u.result, position |-> position]
        /\ UNCHANGED <<now, transports, players, playersByMatch, matches, uuidCounter, timers,
                       suspiciousPlayers, playerActions, gameItems, playerInventories,
                       lastAcceptedAttack>>

\* a call of startMatch(matchId): false for an unknown match, else the match is made
\* active and its auto-end is scheduled
StartMatch(matchId) ==
    /\ IF mmMatches[matchId] = <<>>
       THEN UNCHANGED <<mmMatches, timers>>
       ELSE /\ mmMatches' = [mmMatches EXCEPT ![matchId] = <<startMatch(@[1], now)>>]
            /\ timers' = timers \cup {[kind |-> "END", matchId |-> matchId,
                                       due |-> now + MATCH_DURATION]}
    /\ outbox' = <<>>
    /\ last' = [type |-> "START_MATCH", playerId |-> "", matchId |-> matchId,
                verdict |-> IF mmMatches[matchId] = <<>> THEN "FALSE" ELSE "TRUE"]
    /\ UNCHANGED <<now, transports, players, playersByMatch, matches, uuidCounter,
                   suspiciousPlayers, playerActions, gameItems, playerInventories,
                   lastAcceptedAttack>>

\* the socket's 'message' handler when JSON.parse throws: the catch block logs
HandleMalformedMessage(playerId) ==
    /\ transports[playerId] > 0
    /\ outbox' = <<>>
    /\ last' = [type |-> "MALFORMED", playerId |-> playerId, verdict |-> "LOGGED"]
    /\ UNCHANGED <<timers, now, transports, players, playersByMatch, matches, mmMatches, uuidCounter,
                   suspiciousPlayers, playerActions,
                   gameItems, playerInventories, lastAcceptedAttack>>

\* handlePlayerMessage, case 'PING'
HandlePing(playerId) ==
    /\ transports[playerId] > 0
    /\ IF HasSession(playerId)
       THEN /\ outbox' = sendToPlayer(players, playerId, "PONG", [timestamp |-> now])
            /\ players' = [players EXCEPT ![playerId][1].lastPing = now]
       ELSE outbox' = <<>> /\ players' = players
    /\ last' = [type |-> "PING", playerId |-> playerId,
                verdict |-> IF HasSession(playerId) THEN "PONG" ELSE "DROPPED"]
    /\ UNCHANGED <<timers, now, transports, playersByMatch, matches, mmMatches, uuidCounter,
                   suspiciousPlayers, playerActions,
                   gameItems, playerInventories, lastAcceptedAttack>>

\* handlePlayerMessage -> handlePositionUpdate; message.position is an {x, y} pair.
\* A TypeError raised inside is caught by the socket's message handler: the
\* assignments made before it stay.
HandlePositionUpdate(playerId, message) ==
    /\ transports[playerId] > 0
    /\ IF ~HasSession(playerId)
       THEN /\ outbox' = <<>>
            /\ last' = [type |-> "POSITION_UPDATE", playerId |-> playerId, verdict |-> "DROPPED"]
            /\ UNCHANGED <<players, mmMatches>>
       ELSE LET gs == GS(playerId)
                matchId == Session(playerId).matchId
                isMap == message.viewMode = "MAP"
                timestamp == TimestampOf(message)
                u == updatePlayerPosition(mmMatches, matchId, playerId,
                        [world |-> IF isMap THEN message.position ELSE gs.position.world,
                         room |-> IF message.viewMode = "ROOM" THEN message.position
                                  ELSE gs.position.room], now)
                newPos == IF isMap THEN [gs.position EXCEPT !.world = message.position]
                          ELSE [gs.position EXCEPT !.room = message.position]
                pl1 == [players EXCEPT
                           ![playerId][1].gameState.position = newPos,
                           ![playerId][1].gameState.lastValidPosition =
                               IF gs.aliased THEN newPos ELSE @,
                           ![playerId][1].gameState.lastMoveTime = timestamp]
                g == generateRoomData(u.mm[matchId][1], message.position)
            IN  /\ last' = [type |-> "POSITION_UPDATE", playerId |-> playerId,
                            verdict |-> u.result]
                /\ IF u.result = "true"
                   THEN /\ players' = pl1
                        /\ IF isMap
                           THEN /\ mmMatches' = [u.mm EXCEPT ![matchId] = <<g.match>>]
                                /\ outbox' = IF g.room # <<>>
                                             THEN sendToPlayer(pl1, playerId, "ROOM_DATA",
                                                      [worldPos |-> message.position,
                                                       terrainType |-> g.room[1].terrainType])
                                             ELSE <<>>
                           ELSE mmMatches' = u.mm /\ outbox' = <<>>
                   ELSE /\ players' = players
                        /\ mmMatches' = u.mm
                        /\ outbox' = <<>>
    /\ UNCHANGED <<timers, now, transports, playersByMatch, matches, uuidCounter,
                   suspiciousPlayers, playerActions,
                   gameItems, playerInventories, lastAcceptedAttack>>

----------------------------------------------------------------------------
(* Client inputs explored *)

MovePositions ==
    { FlatPos(0, 0), FlatPos(4, 3), FlatPos(60, 0), FlatPos(0 - 1, 0), InitialPosition }
MoveMessages == {[position |-> pos, timestamp |-> 0] : pos \in MovePositions}

\* targetId is any string the client sends
TargetIds == PlayerIds \cup {"nobody"}
\* timestamps a client can put in an ATTACK_REQUEST: none (0), or a time of its choosing
ForgedTimestamps == {EpochStart + attackCooldown, EpochStart + 2 * attackCooldown}
AttackMessages ==
    {[targetId |-> t, timestamp |-> ts] : t \in TargetIds, ts \in {0} \cup ForgedTimestamps}
Jitters == (0 - 2)..2

\* itemId is any string the client sends; the action names are the ones the
\* switch of processItemAction knows and the upper-case form of the message format
ItemIds == {<<"health_potion", 1>>, <<"leather_armor", 2>>, <<"health_potion", 9>>}
ItemActionTypes == {"pickup", "use", "drop", "equip", "unequip", "USE"}
ItemMessages ==
    {[itemId |-> i, actionType |-> a, timestamp |-> 0] : i \in ItemIds, a \in ItemActionTypes}

\* the items the constructor's initializeItemSpawns leaves in the world, for one
\* outcome of its draws: a potion and an armor from the pool of the starting area
InitialItems ==
    { spawnItem("health_potion", 1, FlatPos(10, 0), 2),
      spawnItem("leather_armor", 2, FlatPos(0, 20), 1) }

StatusMessages == {[status |-> st] : st \in {"in_game", "admin"}}

PositionMessages ==
    {[position |-> pos, viewMode |-> vm, timestamp |-> 0] :
        pos \in {XY(1, 0), XY(3, 3)}, vm \in {"MAP", "ROOM"}}

----------------------------------------------------------------------------
Init ==
    /\ now = EpochStart
    /\ timers = {}
    /\ transports = [p \in PlayerIds |-> 0]
    /\ players = [p \in PlayerIds |-> <<>>]
    /\ playersByMatch = [m \in MatchIds |-> <<>>]
    /\ matches = [m \in MatchIds |-> <<>>]
    /\ mmMatches = [m \in MatchIds |-> <<>>]
    /\ uuidCounter = 0
    /\ suspiciousPlayers = [p \in PlayerIds |-> 0]
    /\ playerActions = [p \in PlayerIds |-> <<>>]
    /\ gameItems = InitialItems
    /\ playerInventories = [p \in PlayerIds |-> <<>>]
    /\ lastAcceptedAttack = [p \in PlayerIds |-> 0]
    /\ outbox = <<>>
    /\ last = [type |-> "INIT", playerId |-> "", verdict |-> ""]

Next ==
    \/ \E p \in PlayerIds, seed \in Seeds : HandleNewConnection(p, "lobby", seed)
    \/ \E p \in PlayerIds : HandleClose(p)
    \/ \E d \in ClockSteps : AdvanceClock(d)
    \/ \E p \in PlayerIds, m \in MoveMessages : HandleMoveRequest(p, m)
    \/ \E p \in PlayerIds, m \in AttackMessages, j \in Jitters : HandleAttackRequest(p, m, j)
    \/ \E p \in PlayerIds, m \in ItemMessages : HandleItemAction(p, m) /\ FewSlots
    \/ \E p \in PlayerIds, m \in StatusMessages : HandleStatusUpdate(p, m)
    \/ \E p \in PlayerIds : HandlePlayerReady(p)
    \/ \E p \in PlayerIds : HandleQueueAction(p)
    \/ \E p \in PlayerIds : HandlePing(p)
    \/ \E p \in PlayerIds, m \in PositionMessages : HandlePositionUpdate(p, m)
    \/ ProcessAutoAttackTick
    \/ ProcessSkillTick
    \/ CleanupTick
    \/ \E p \in PlayerIds : HandleMalformedMessage(p)
    \/ \E m \in Uuids : EndMatch(m)
    \/ \E timer \in timers : FireTimer(timer)
    \/ \E ids \in {<<>>, <<"p1">>, <<"p1", "p2">>, <<"p2", "p1">>}, seed \in Seeds :
            CreateMatch(ids, seed)
    \/ \E m \in Uuids : StartMatch(m)
    \/ \E m \in Uuids, k \in PlayerIds, v \in PlayerIds : RecordPlayerKill(m, k, v)
    \/ \E m \in Uuids, p \in PlayerIds : RecordItemCollection(m, p, 1)
    \/ \E m \in Uuids, p \in PlayerIds, pos \in MovePositions :
            UpdatePlayerPosition(m, p, [world |-> pos, room |-> XY(3, 4)])

Spec == Init /\ [][Next]_vars

\* the clock in the scenarios that span a few seconds
MaxShortNow == 4500

\* connections made in the scenarios in which every player joins once
MaxJoins == 2

\* violations and action-history entries recorded per player in the scenarios that
\* are not about escalation or request rates
MaxFlags == 1
MaxHistory == 3
FewRecords ==
    \A p \in PlayerIds :
        suspiciousPlayers'[p] <= MaxFlags /\ Len(playerActions'[p]) <= MaxHistory

\* Movement: both players join, the clock runs, MOVE_REQUESTs of every explored shape
NextMove ==
    \/ /\ uuidCounter < MaxJoins
       /\ \E p \in PlayerIds, seed \in Seeds : HandleNewConnection(p, "lobby", seed)
    \/ \E d \in ClockSteps : now + d <= MaxShortNow /\ AdvanceClock(d)
    \/ \E p \in PlayerIds, m \in MoveMessages : HandleMoveRequest(p, m) /\ FewRecords

SpecMove == Init /\ [][NextMove]_vars

\* Combat: both players join, one of them may walk out of range, ATTACK_REQUESTs with
\* every explored target, timestamp and damage draw, and status changes
CombatMoveMessages == {[position |-> FlatPos(60, 0), timestamp |-> 0]}
\* the damage draw that gives the largest hit
CombatJitters == {2}

NextCombat ==
    \/ /\ uuidCounter < MaxJoins
       /\ \E p \in PlayerIds, seed \in Seeds : HandleNewConnection(p, "lobby", seed)
    \/ \E p \in PlayerIds, m \in AttackMessages, j \in CombatJitters :
            HandleAttackRequest(p, m, j) /\ FewRecords
    \/ \E p \in PlayerIds, m \in StatusMessages : HandleStatusUpdate(p, m)

SpecCombat == Init /\ [][NextCombat]_vars

\* Range: both players join, walk to one of two places 60 apart, and attack with the
\* server's clock as timestamp
RangeMoveMessages == {[position |-> pos, timestamp |-> 0] : pos \in {FlatPos(0, 0), FlatPos(60, 0)}}
RangeAttackMessages == {[targetId |-> t, timestamp |-> 0] : t \in TargetIds}

NextRange ==
    \/ /\ uuidCounter < MaxJoins
       /\ \E p \in PlayerIds, seed \in Seeds : HandleNewConnection(p, "lobby", seed)
    \/ \E p \in PlayerIds, m \in RangeMoveMessages : HandleMoveRequest(p, m) /\ FewRecords
    \/ \E p \in PlayerIds, m \in RangeAttackMessages, j \in CombatJitters :
            HandleAttackRequest(p, m, j) /\ FewRecords

SpecRange == Init /\ [][NextRange]_vars

\* Health: both players join; p2 is hit by p1 and by itself, picks the potion up
\* and drinks it
HealthAttackMessages ==
    {[targetId |-> "p2", timestamp |-> ts] : ts \in {0} \cup ForgedTimestamps}
HealthItemMessages ==
    {[itemId |-> <<"health_potion", 1>>, actionType |-> a, timestamp |-> 0] :
        a \in {"pickup", "use"}}

NextHealth ==
    \/ /\ uuidCounter < MaxJoins
       /\ \E p \in PlayerIds, seed \in Seeds : HandleNewConnection(p, "lobby", seed)
    \/ \E p \in PlayerIds, m \in HealthAttackMessages, j \in CombatJitters :
            HandleAttackRequest(p, m, j) /\ FewRecords
    \/ \E m \in HealthItemMessages : HandleItemAction("p2", m) /\ FewRecords /\ FewSlots

SpecHealth == Init /\ [][NextHealth]_vars

\* calculateDamage as a function: the stats and the draw are chosen at the start
\* (a stat of 0 stands for an absent or zero stat), then the function is applied
MaxStat == 30
StatValues == 0..MaxStat

InitDamage ==
    /\ now = EpochStart
    /\ timers = {}
    /\ transports = [p \in PlayerIds |-> 0]
    /\ players = [p \in PlayerIds |-> <<>>]
    /\ playersByMatch = [m \in MatchIds |-> <<>>]
    /\ matches = [m \in MatchIds |-> <<>>]
    /\ mmMatches = [m \in MatchIds |-> <<>>]
    /\ uuidCounter = 0
    /\ suspiciousPlayers = [p \in PlayerIds |-> 0]
    /\ playerActions = [p \in PlayerIds |-> <<>>]
    /\ gameItems = InitialItems
    /\ playerInventories = [p \in PlayerIds |-> <<>>]
    /\ lastAcceptedAttack = [p \in PlayerIds |-> 0]
    /\ outbox = <<>>
    /\ \E a \in StatValues, d \in StatValues, j \in Jitters :
          last = [type |-> "DRAW", playerId |-> "", verdict |-> "",
                  attack |-> a, defense |-> d, jitter |-> j, damage |-> 0]

CalculateDamage ==
    /\ last.type = "DRAW"
    /\ last' = [last EXCEPT !.type = "DAMAGE",
                            !.damage = calculateDamage(last.attack, last.defense, last.jitter)]
    /\ UNCHANGED <<timers, now, transports, players, playersByMatch, matches, mmMatches, uuidCounter,
                   suspiciousPlayers, playerActions, gameItems, playerInventories,
                   lastAcceptedAttack, outbox>>

NextDamage == CalculateDamage

SpecDamage == InitDamage /\ [][NextDamage]_vars

----------------------------------------------------------------------------
(* Movement claims, checked under SpecMove *)

\* squared distance between the world coordinates two position objects denote
WorldDistSq(pos1, pos2) ==
    (WorldXY(pos1)[1] - WorldXY(pos2)[1]) * (WorldXY(pos1)[1] - WorldXY(pos2)[1])
    + (WorldXY(pos1)[2] - WorldXY(pos2)[2]) * (WorldXY(pos1)[2] - WorldXY(pos2)[2])

\* milliseconds since the session's last accepted move (its creation before any move)
ElapsedSinceLastMove(p, m) == TimestampOf(m) - GS(p).lastMoveTime

\* dist > maxMovementSpeed * (elapsed / 1000) * maxMovementSpeedMultiplier
BeyondSpeedBound(distSq, elapsed) ==
    LET msPerUnit == 1000 \div (maxMovementSpeed * maxMovementSpeedMultiplier)
    IN  msPerUnit * msPerUnit * distSq > elapsed * elapsed

LiveSession(p) == transports[p] > 0 /\ HasSession(p) /\ GS(p).alive

\* C1: a MOVE_REQUEST whose requested position is farther from the player's last
\* valid position than 5 units/s x the time since the last accepted move x 2.0 is
\* rejected: afterwards the authoritative position is the last valid position and
\* not the requested one.
C1_FarMoveRejected ==
    [][\A p \in PlayerIds, m \in MoveMessages :
          ( /\ LiveSession(p)
            /\ BeyondSpeedBound(WorldDistSq(GS(p).lastValidPosition, m.position),
                                ElapsedSinceLastMove(p, m))
            /\ HandleMoveRequest(p, m) )
          => /\ players'[p][1].gameState.position = GS(p).lastValidPosition
             /\ players'[p][1].gameState.position # m.position]_vars

\* C2: an in-bounds MOVE_REQUEST of a live player whose distance from the current
\* position is at most 5 units/s x the time since the last accepted move x 2.0 is
\* accepted: position and last valid position both become the requested position.
C2_MoveWithinSpeedAccepted ==
    [][\A p \in PlayerIds, m \in MoveMessages :
          ( /\ LiveSession(p)
            /\ isPositionInBounds(m.position)
            /\ ~BeyondSpeedBound(WorldDistSq(GS(p).position, m.position),
                                 ElapsedSinceLastMove(p, m))
            /\ HandleMoveRequest(p, m) )
          => /\ players'[p][1].gameState.position = m.position
             /\ players'[p][1].gameState.lastValidPosition = m.position]_vars

HasMsg(type, to) == \E i \in 1..Len(outbox) : outbox[i].type = type /\ outbox[i].to = to
HasMsgOfType(type) == \E i \in 1..Len(outbox) : outbox[i].type = type

\* C3: a MOVE_REQUEST rejected by the speed bound or the obstacle check is answered
\* with a POSITION_CORRECTION to the requester and no PLAYER_MOVED is broadcast.
C3_RejectedMoveCorrected ==
    (last.type = "MOVE_REQUEST" /\ last.verdict \in {"SPEED_HACK", "WALL_HACK"})
    => /\ HasMsg("POSITION_CORRECTION", last.playerId)
       /\ ~HasMsgOfType("PLAYER_MOVED")

----------------------------------------------------------------------------
(* Combat claims *)

\* C4 (SpecCombat): the timestamps of two accepted attacks of one attacker differ by
\* at least the cooldown of 1500 ms: an attack accepted after an earlier accepted
\* attack of the same player id has a timestamp at least 1500 away from it.
C4_AcceptedAttacksCooldownApart ==
    [][\A p \in PlayerIds :
          ( /\ last'.type = "ATTACK_REQUEST" /\ last'.playerId = p
            /\ last'.verdict = "VALID"
            /\ lastAcceptedAttack[p] # 0 )
          => Abs(lastAcceptedAttack'[p] - lastAcceptedAttack[p]) >= attackCooldown]_vars

\* timestamps a client message can carry: absent (the server's clock) or forged
ClientTimestamps == {now} \cup ForgedTimestamps
AttackAccepted(p, targetId, timestamp) ==
    validateCombatAction(SA, players, p, targetId, timestamp, 0).result # <<>>
MoveAccepted(p, position, timestamp) ==
    validateMovement(SA, p, GS(p).position, position, timestamp, Session(p)).branch = "VALID"

\* C5 (SpecCombat): whether a request is accepted does not depend on the timestamp
\* field of the message: in every state, the same ATTACK_REQUEST or MOVE_REQUEST of a
\* live player gets the same accept/reject outcome under any two client timestamps.
C5_OutcomeIndependentOfTimestamp ==
    \A p \in PlayerIds :
        LiveSession(p) =>
            \A ts1 \in ClientTimestamps, ts2 \in ClientTimestamps :
                /\ \A t \in TargetIds :
                       AttackAccepted(p, t, ts1) <=> AttackAccepted(p, t, ts2)
                /\ \A pos \in MovePositions :
                       MoveAccepted(p, pos, ts1) <=> MoveAccepted(p, pos, ts2)

\* C6 (SpecDamage): for every attack stat, defense stat and jitter, the damage
\* calculateDamage returns is an integer within [minDamagePerHit, maxDamagePerHit].
C6_DamageWithinLimits ==
    last.type = "DAMAGE" => last.damage \in minDamagePerHit..maxDamagePerHit

\* a draw for which the upper clamp decides the result
C6_Witness ==
    /\ last.type = "DAMAGE"
    /\ last.damage = maxDamagePerHit
    /\ baseDamage + last.attack - last.defense + last.jitter > maxDamagePerHit

\* the cases in which validateCombatAction has to reject
MustRejectAttack(p, m) ==
    \/ ~Registered(players, m.targetId)
    \/ GS(p).health = 0
    \/ TimestampOf(m) - GS(p).lastAttackTime < attackCooldown
    \/ WorldDistSq(GS(p).position, players[m.targetId][1].gameState.position)
          > maxAttackRange * maxAttackRange

CombatFieldsUnchanged(q) ==
    (q \in PlayerIds /\ HasSession(q)) =>
        /\ players'[q] # <<>>
        /\ players'[q][1].gameState.health = GS(q).health
        /\ players'[q][1].gameState.inCombat = GS(q).inCombat
        /\ players'[q][1].gameState.lastAttackTime = GS(q).lastAttackTime
        /\ players'[q][1].gameState.kills = GS(q).kills

\* C7 (SpecRange): validateCombatAction returns no outcome when the target is not a
\* registered session, the attacker's health is 0, the cooldown has not elapsed or
\* the attacker-target distance exceeds 50; health, combat flag, last-attack time and
\* kill counter of both parties are then unchanged.
C7_AttackRejections ==
    [][\A p \in PlayerIds, m \in RangeAttackMessages, j \in CombatJitters :
          ( /\ LiveSession(p)
            /\ MustRejectAttack(p, m)
            /\ HandleAttackRequest(p, m, j) )
          => /\ last'.verdict # "VALID"
             /\ CombatFieldsUnchanged(p)
             /\ CombatFieldsUnchanged(m.targetId)]_vars

\* C8 (SpecHealth): in every reachable state the health of every session is within
\* [0, maxHealth].
C8_HealthWithinLimits ==
    \A p \in PlayerIds : HasSession(p) => GS(p).health \in 0..maxHealth

\* a player that has been hit drinks the potion and is back at full health
C8_Witness ==
    /\ HasSession("p2")
    /\ last.type = "ITEM_ACTION" /\ last.verdict = "consumed"
    /\ GS("p2").inCombat
    /\ GS("p2").health = maxHealth

\* C9 (SpecCombat): no session has health 0 with its alive flag set, and an accepted
\* attack that leaves the target's health at 0 clears the target's alive flag,
\* records the death timestamp and adds exactly one to the killer's kill counter, all
\* in the same step.
C9_DeathTransition ==
    /\ [](\A p \in PlayerIds : (HasSession(p) /\ GS(p).health = 0) => ~GS(p).alive)
    /\ [][\A i \in 1..Len(outbox') :
            ( /\ outbox'[i].type = "COMBAT_RESULT"
              /\ players'[outbox'[i].body.targetId][1].gameState.health = 0 )
            => LET r == outbox'[i].body
               IN  /\ ~players'[r.targetId][1].gameState.alive
                   /\ players'[r.targetId][1].gameState.deathTime = <<r.timestamp>>
                   /\ players'[r.attackerId][1].gameState.kills
                          = GS(r.attackerId).kills + 1]_vars

\* p1's accepted attack has just killed p2
C9_Witness ==
    /\ last.type = "ATTACK_REQUEST" /\ last.verdict = "VALID" /\ last.playerId = "p1"
    /\ HasSession("p1") /\ HasSession("p2")
    /\ HasMsgOfType("PLAYER_DIED")
    /\ GS("p2").health = 0 /\ ~GS("p2").alive
    /\ GS("p2").deathTime # Undefined /\ GS("p2").killedBy = <<"p1">>
    /\ GS("p1").kills = 1

ClientMessageTypes ==
    {"MOVE_REQUEST", "POSITION_UPDATE", "ATTACK_REQUEST", "ITEM_ACTION", "PLAYER_READY",
     "STATUS_UPDATE", "QUEUE_ACTION"}

\* C10 (SpecCombat): once a player's health is 0, no message from that player changes
\* its position, health, inventory, ready flag or connection status, nor any other
\* player's state.
C10_DeadPlayerChangesNothing ==
    [][\A p \in PlayerIds :
          ( /\ HasSession(p) /\ GS(p).health = 0
            /\ last'.playerId = p /\ last'.type \in ClientMessageTypes )
          => /\ players'[p] # <<>>
             /\ players'[p][1].gameState.position = GS(p).position
             /\ players'[p][1].gameState.health = GS(p).health
             /\ players'[p][1].gameState.ready = GS(p).ready
             /\ players'[p][1].status = Session(p).status
             /\ playerInventories' = playerInventories
             /\ \A q \in PlayerIds \ {p} : players'[q] = players[q]]_vars

\* Death and reconnection: players join, leave and join again; p2 is attacked (by p1
\* and by itself) with the server's clock or a later forged time as timestamp
NextDeath ==
    \/ \E p \in PlayerIds, seed \in Seeds : HandleNewConnection(p, "lobby", seed)
    \/ \E p \in PlayerIds : HandleClose(p)
    \/ \E p \in PlayerIds, m \in HealthAttackMessages, j \in CombatJitters :
            HandleAttackRequest(p, m, j) /\ FewRecords

SpecDeath == Init /\ [][NextDeath]_vars

\* the session registered under p is dead
DeadSession(p) == HasSession(p) /\ ~GS(p).alive

\* C11 (SpecDeath): death is terminal within a match: a player id whose session in
\* a match is dead is not alive with positive health in that match after any step,
\* a new connection presenting the same player id and match id included.
C11_DeathIsTerminal ==
    [][\A p \in PlayerIds :
          DeadSession(p)
          => ~( /\ players'[p] # <<>>
                /\ players'[p][1].matchId = Session(p).matchId
                /\ players'[p][1].gameState.alive
                /\ players'[p][1].gameState.health > 0 )]_vars

----------------------------------------------------------------------------
(* Replies *)

\* Replies: both players join and attack p2; p2 may walk and pick the potion up
ReplyMoveMessages == {[position |-> FlatPos(4, 3), timestamp |-> 0]}

ReplyItemMessages ==
    {[itemId |-> <<"health_potion", 1>>, actionType |-> "pickup", timestamp |-> 0]}

NextReply ==
    \/ /\ uuidCounter < MaxJoins
       /\ \E p \in PlayerIds, seed \in Seeds : HandleNewConnection(p, "lobby", seed)
    \/ \E m \in ReplyMoveMessages : HandleMoveRequest("p2", m) /\ FewRecords
    \/ \E p \in PlayerIds, m \in HealthAttackMessages, j \in CombatJitters :
            HandleAttackRequest(p, m, j) /\ FewRecords
    \/ \E m \in ReplyItemMessages : HandleItemAction("p2", m) /\ FewRecords /\ FewSlots

SpecReply == Init /\ [][NextReply]_vars

\* the broadcast that carries the result of a request of the given type
ResultBroadcast(type) ==
    CASE type = "MOVE_REQUEST" -> "PLAYER_MOVED"
      [] type = "ATTACK_REQUEST" -> "COMBAT_RESULT"
      [] type = "ITEM_ACTION" -> "ITEM_ACTION_RESULT"

\* the unicast that tells the requester that its request was rejected
RejectionUnicast(type) ==
    CASE type = "MOVE_REQUEST" -> "POSITION_CORRECTION"
      [] type = "ATTACK_REQUEST" -> "ATTACK_REJECTED"
      [] type = "ITEM_ACTION" -> "ITEM_ACTION_REJECTED"

\* C12 (SpecReply): every MOVE_REQUEST, ATTACK_REQUEST and ITEM_ACTION received from
\* a registered session, a dead player's included, is answered with exactly one of
\* the result broadcast of its type and the rejection unicast to the requester.
C12_EveryRequestAnswered ==
    ( /\ last.type \in {"MOVE_REQUEST", "ATTACK_REQUEST", "ITEM_ACTION"}
      /\ HasSession(last.playerId) )
    => ( HasMsgOfType(ResultBroadcast(last.type))
         # HasMsg(RejectionUnicast(last.type), last.playerId) )

----------------------------------------------------------------------------
(* Escalation *)

\* Escalation: players join and leave, send ATTACK_REQUESTs naming a target that
\* does not exist (each one a recorded violation), pings and status updates. The
\* server does not stop while a message or a connection can still be handled.
KickAttackMessages == {[targetId |-> "nobody", timestamp |-> 0]}
KickStatusMessages == {[status |-> "in_game"]}

NextKick ==
    \/ /\ uuidCounter < MaxJoins
       /\ \E p \in PlayerIds, seed \in Seeds : HandleNewConnection(p, "lobby", seed)
    \/ \E p \in PlayerIds : HandleClose(p)
    \/ \E p \in PlayerIds, m \in KickAttackMessages, j \in CombatJitters :
            HandleAttackRequest(p, m, j)
    \/ \E p \in PlayerIds : HandlePing(p)
    \/ \E p \in PlayerIds, m \in KickStatusMessages : HandleStatusUpdate(p, m)

SpecKick == Init /\ [][NextKick]_vars /\ WF_vars(NextKick)

\* C13 (SpecKick): when a player's violation count has reached the auto-kick
\* threshold (flagSuspiciousActivity returns the kick action) while its session is
\* registered, that session is eventually released.
C13_KickedPlayerReleased ==
    \A p \in PlayerIds :
        (HasSession(p) /\ flagAction(suspiciousPlayers[p]) = "kick") ~> ~HasSession(p)

----------------------------------------------------------------------------
(* Request rate *)

\* Request rate: both players join; p1 sends MOVE_REQUESTs, to the origin or out of
\* the world, all within one reading of the clock
RateMoveMessages ==
    {[position |-> pos, timestamp |-> 0] : pos \in {FlatPos(0, 0), FlatPos(0 - 1, 0)}}

NextRate ==
    \/ /\ uuidCounter < MaxJoins
       /\ \E p \in PlayerIds, seed \in Seeds : HandleNewConnection(p, "lobby", seed)
    \/ \E m \in RateMoveMessages : HandleMoveRequest("p1", m)

SpecRate == Init /\ [][NextRate]_vars

\* a MOVE_REQUEST of p has just been handled by validateMovement
MoveHandled(p) ==
    last'.type = "MOVE_REQUEST" /\ last'.playerId = p /\ last'.verdict # "DROPPED"

\* C14 (SpecRate): of the move requests a player issues within one second, every
\* one, accepted or merely attempted, is appended to the player's action history,
\* and every request after the 10th of that second increments the violation counter.
C14_RequestsRecordedAndRated ==
    [][\A p \in PlayerIds :
          MoveHandled(p)
          => /\ Len(playerActions'[p]) = Len(playerActions[p]) + 1
             /\ Len(playerActions[p]) >= maxActionsPerSecond
                    => suspiciousPlayers'[p] > suspiciousPlayers[p]]_vars

----------------------------------------------------------------------------
(* Rejections *)

\* Rejections: both players join and the clock runs; p1 sends requests that validate
\* and requests that run into each check: moves to the origin, far away and out of
\* the world, attacks on every target, pickups of an item that exists and of one
\* that does not
RejectMoveMessages ==
    {[position |-> pos, timestamp |-> 0] :
        pos \in {FlatPos(0, 0), FlatPos(60, 0), FlatPos(0 - 1, 0)}}
RejectItemMessages ==
    {[itemId |-> i, actionType |-> "pickup", timestamp |-> 0] :
        i \in {<<"health_potion", 1>>, <<"health_potion", 9>>}}

NextReject ==
    \/ /\ uuidCounter < MaxJoins
       /\ \E p \in PlayerIds, seed \in Seeds : HandleNewConnection(p, "lobby", seed)
    \/ \E d \in ClockSteps : now + d <= MaxShortNow /\ AdvanceClock(d)
    \/ \E m \in RejectMoveMessages : HandleMoveRequest("p1", m) /\ FewRecords
    \/ \E m \in RangeAttackMessages, j \in CombatJitters :
            HandleAttackRequest("p1", m, j) /\ FewRecords
    \/ \E m \in RejectItemMessages : HandleItemAction("p1", m) /\ FewRecords /\ FewSlots

SpecReject == Init /\ [][NextReject]_vars

\* the outcomes of validateMovement, validateCombatAction and validateItemAction
\* that record a violation
ViolationVerdicts ==
    {"OUT_OF_BOUNDS", "SPEED_HACK", "WALL_HACK",
     "INVALID_TARGET", "DEAD_PLAYER_ACTION", "ATTACK_SPEED_HACK", "RANGE_HACK",
     "DEAD_PLAYER_ITEM_USE", "INVALID_ITEM", "ITEM_RANGE_HACK"}

\* C15 (SpecReject): a request that is rejected with a recorded violation leaves the
\* requester's position, last-valid position, last-move time, last-attack time and
\* health, the inventories, the world item table and every other player's state as
\* they were.
C15_RejectionChangesAdvisoryStateOnly ==
    [][\A p \in PlayerIds :
          ( /\ last'.playerId = p
            /\ last'.type \in {"MOVE_REQUEST", "ATTACK_REQUEST", "ITEM_ACTION"}
            /\ last'.verdict \in ViolationVerdicts )
          => /\ players'[p] # <<>>
             /\ players'[p][1].gameState.position = GS(p).position
             /\ players'[p][1].gameState.lastValidPosition = GS(p).lastValidPosition
             /\ players'[p][1].gameState.lastMoveTime = GS(p).lastMoveTime
             /\ players'[p][1].gameState.lastAttackTime = GS(p).lastAttackTime
             /\ players'[p][1].gameState.health = GS(p).health
             /\ playerInventories' = playerInventories
             /\ gameItems' = gameItems
             /\ \A q \in PlayerIds \ {p} : players'[q] = players[q]]_vars

----------------------------------------------------------------------------
(* Admission and release *)

\* Admission and release: clients connect, all naming the match id "lobby", under
\* either player id, close their sockets and connect again; sessions ping and
\* report a status. generateMatchSeed draws one of two seeds.
AdmitSeeds == {MAP_SEED, MAP_SEED + 1}

NextAdmit ==
    \/ \E p \in PlayerIds, seed \in AdmitSeeds : HandleNewConnection(p, "lobby", seed)
    \/ \E p \in PlayerIds : HandleClose(p)
    \/ \E p \in PlayerIds : HandlePing(p)
    \/ \E p \in PlayerIds, m \in KickStatusMessages : HandleStatusUpdate(p, m)

SpecAdmit == Init /\ [][NextAdmit]_vars

\* the matches the MatchManager holds
WorldMatches == {m \in MatchIds : mmMatches[m] # <<>>}
\* the player ids in the player-state map of MatchManager match m
WorldMatchPlayers(m) == {p \in PlayerIds : mmMatches[m][1].players[p] # <<>>}

\* C16 (SpecAdmit): when several clients connect with the same match id, one
\* MatchManager match is created for it and every session of the match is
\* registered in that match's player map, so that all of them share one seed.
C16_OneWorldMatchPerMatchId ==
    /\ Cardinality(WorldMatches) <= 1
    /\ \A p \in PlayerIds :
          HasSession(p) => \E m \in WorldMatches : p \in WorldMatchPlayers(m)

\* the join event reaches every other session of the joiner's match, not the joiner
JoinEventToOthersOnly(joiner) ==
    /\ ~HasMsg("PLAYER_JOINED", joiner)
    /\ \A q \in PlayerIds \ {joiner} :
          (HasSession(q) /\ Session(q).matchId = Session(joiner).matchId)
          => HasMsg("PLAYER_JOINED", q)

\* the CONNECTION_ESTABLISHED messages sent to the joiner
Snapshots(joiner) ==
    {i \in 1..Len(outbox) :
        outbox[i].type = "CONNECTION_ESTABLISHED" /\ outbox[i].to = joiner}

\* C17 (SpecAdmit): on admit the join event is sent to every other session of the
\* match and never to the joiner, and the snapshot sent to the joiner holds the
\* connected-player list, the joiner in it, together with map data (the seed and the
\* landmarks of the match); the map data is never absent.
C17_JoinEventAndSnapshot ==
    last.type = "CONNECT"
    => /\ JoinEventToOthersOnly(last.playerId)
       /\ Snapshots(last.playerId) # {}
       /\ \A i \in Snapshots(last.playerId) :
             /\ \E k \in 1..Len(outbox[i].body.connectedPlayers) :
                    outbox[i].body.connectedPlayers[k] = last.playerId
             /\ outbox[i].body.mapData # <<>>

\* C18 (SpecAdmit): a release (socket close or error) of a registered player removes
\* its session from the registry and the player from its match's player set and,
\* when that set becomes empty, discards the match, the MatchManager matches created
\* for that match id included (every connection names the same match id here);
\* the release of a player without a session changes nothing.
C18_ReleaseDiscards ==
    [][\A p \in PlayerIds :
          (last'.type = "CLOSE" /\ last'.playerId = p)
          => IF HasSession(p)
             THEN LET matchId == Session(p).matchId
                  IN  /\ players'[p] = <<>>
                      /\ p \notin SeqToSet(playersByMatch'[matchId])
                      /\ playersByMatch'[matchId] = <<>>
                            => /\ matches'[matchId] = <<>>
                               /\ \A m \in MatchIds : mmMatches'[m] = <<>>
             ELSE UNCHANGED <<players, playersByMatch, matches, mmMatches,
                              suspiciousPlayers, playerActions, gameItems,
                              playerInventories>>]_vars

\* C19 (SpecAdmit): in every reachable state the player ids in the player-state map
\* of a MatchManager match all have a session attached to the match the clients
\* named (every connection names the same match id here).
C19_MatchPlayersHaveSessions ==
    \A m \in WorldMatches :
        \A p \in WorldMatchPlayers(m) :
            HasSession(p) /\ p \in SeqToSet(playersByMatch[Session(p).matchId])

----------------------------------------------------------------------------
(* Ticks *)

\* Ticks: clients connect to "lobby" and close their sockets while the two tick
\* timers fire
NextTick ==
    \/ \E p \in PlayerIds, seed \in Seeds : HandleNewConnection(p, "lobby", seed)
    \/ \E p \in PlayerIds : HandleClose(p)
    \/ \E p \in PlayerIds, m \in KickStatusMessages : HandleStatusUpdate(p, m)
    \/ ProcessAutoAttackTick
    \/ ProcessSkillTick

SpecTick == Init /\ [][NextTick]_vars

\* the round counter of match m in a value of GameServer.matches; 0 without an entry
RoundOf(ma, m) == IF ma[m] = <<>> THEN 0 ELSE ma[m][1].roundNumber

\* the matches clients were admitted to that have at least one session and whose
\* MatchManager match is running
MatchesWithSessions ==
    {m \in MatchIds : playersByMatch[m] # <<>>
                      /\ \E w \in WorldMatches : mmMatches[w][1].status = "ACTIVE"}

\* the tick step sends a message of the given type to every session of match m
TickDelivered(type, m) ==
    \A p \in PlayerIds :
        (HasSession(p) /\ Session(p).matchId = m)
        => \E i \in 1..Len(outbox') : outbox'[i].type = type /\ outbox'[i].to = p

\* C20 (SpecTick): for a match created by admit that is active and has at least one
\* session, every auto-attack tick adds exactly one to the match's round counter and
\* delivers an AUTOATTACK_TICK to every session of the match, and every skill tick
\* delivers a SKILL_TICK to every session of the match and leaves the round counter
\* as it was.
C20_TicksReachEverySession ==
    [][\A m \in MatchesWithSessions :
          /\ last'.type = "AUTOATTACK_TICK"
                => /\ RoundOf(matches', m) = RoundOf(matches, m) + 1
                   /\ TickDelivered("AUTOATTACK_TICK", m)
          /\ last'.type = "SKILL_TICK"
                => /\ RoundOf(matches', m) = RoundOf(matches, m)
                   /\ TickDelivered("SKILL_TICK", m)]_vars

----------------------------------------------------------------------------
(* Delivery failures *)

\* Delivery failures: clients connect to "lobby" and close their sockets; sessions
\* report a status, and the write to any set of sockets may throw
NextBroadcast ==
    \/ \E p \in PlayerIds, seed \in Seeds : HandleNewConnection(p, "lobby", seed)
    \/ \E p \in PlayerIds : HandleClose(p)
    \/ \E p \in PlayerIds, m \in KickStatusMessages, broken \in SUBSET PlayerIds :
            HandleStatusUpdateThrowing(p, m, broken)

SpecBroadcast == Init /\ [][NextBroadcast]_vars

\* the sessions a broadcast to the requester's match visits
BroadcastTargets(p) ==
    {q \in SeqToSet(playersByMatch[Session(p).matchId]) : HasSession(q) /\ Session(q).isAlive}

\* C21 (SpecBroadcast): in a broadcast to a match, the sessions whose delivery fails
\* are released, exactly those, and the message is delivered to every other session
\* of the match, wherever the failing session sits in the iteration order and also
\* when the releases empty the match's player set.
C21_FailedDeliveryReleasesOnlyThatSession ==
    [][\A p \in PlayerIds, m \in KickStatusMessages, broken \in SUBSET PlayerIds :
          (HasSession(p) /\ HandleStatusUpdateThrowing(p, m, broken))
          => \A q \in PlayerIds :
                /\ (q \in BroadcastTargets(p) /\ q \in broken) => players'[q] = <<>>
                /\ (q \in BroadcastTargets(p) /\ q \notin broken)
                      => \E i \in 1..Len(outbox') :
                            /\ outbox'[i].to = q
                            /\ outbox'[i].type = "PLAYER_STATUS_UPDATE"
                /\ (HasSession(q) /\ ~(q \in BroadcastTargets(p) /\ q \in broken))
                      => players'[q] # <<>>]_vars

\* the requester's own copy of its status broadcast could not be delivered: the
\* requester has been released within the broadcast and the other session of the
\* match has received the message
C21_Witness ==
    /\ last.type = "STATUS_UPDATE" /\ last.verdict = "UPDATED"
    /\ ~HasSession(last.playerId)
    /\ \E q \in PlayerIds \ {last.playerId} :
          /\ playersByMatch["lobby"] = <<q>>
          /\ HasMsg("PLAYER_STATUS_UPDATE", q)
    /\ ~HasMsg("PLAYER_STATUS_UPDATE", last.playerId)

----------------------------------------------------------------------------
(* Housekeeping *)

\* Housekeeping: clients connect to "lobby" and ping; the clock advances by one
\* cleanup interval, or by a millisecond more, and the cleanup timer fires
\* the sweep scenario stops its clock after three sweep intervals
MaxSweepNow == 94000

SweepClockSteps == {CLEANUP_INTERVAL, CLEANUP_INTERVAL + 1}

NextSweep ==
    \/ /\ uuidCounter < MaxJoins
       /\ \E p \in PlayerIds, seed \in Seeds : HandleNewConnection(p, "lobby", seed)
    \/ \E p \in PlayerIds : HandlePing(p)
    \/ \E d \in SweepClockSteps : now + d <= MaxSweepNow /\ AdvanceClock(d)
    \/ CleanupTick

SpecSweep == Init /\ [][NextSweep]_vars

\* C22 (SpecSweep): at every housekeeping sweep every session whose last heartbeat
\* is more than 60 s old is released, and every session whose last heartbeat is at
\* most 60 s old is left as it is.
C22_SweepReleasesStaleSessionsOnly ==
    [][last'.type = "CLEANUP"
       => \A p \in PlayerIds :
             HasSession(p)
             => IF now - Session(p).lastPing > 60000
                THEN players'[p] = <<>>
                ELSE players'[p] = players[p]]_vars

\* a sweep has released one session and kept one whose heartbeat is exactly 60 s old
C22_Witness ==
    /\ last.type = "CLEANUP"
    /\ \E p \in PlayerIds, q \in PlayerIds :
          /\ transports[p] > 0 /\ ~HasSession(p)
          /\ HasSession(q) /\ now - Session(q).lastPing = 60000

----------------------------------------------------------------------------
(* Malformed payloads *)

\* Malformed payloads: clients connect to "lobby", close their sockets, report a
\* status and send payloads that are not JSON
NextMalformed ==
    \/ \E p \in PlayerIds, seed \in Seeds : HandleNewConnection(p, "lobby", seed)
    \/ \E p \in PlayerIds : HandleClose(p)
    \/ \E p \in PlayerIds, m \in KickStatusMessages : HandleStatusUpdate(p, m)
    \/ \E p \in PlayerIds : HandleMalformedMessage(p)

SpecMalformed == Init /\ [][NextMalformed]_vars

\* C23 (SpecMalformed): a malformed payload from a session is a disconnect trigger
\* for that session: the session is released, and the state of no other session and
\* of no match changes.
C23_MalformedPayloadReleases ==
    [][\A p \in PlayerIds :
          (last'.type = "MALFORMED" /\ last'.playerId = p /\ HasSession(p))
          => /\ players'[p] = <<>>
             /\ \A q \in PlayerIds \ {p} : players'[q] = players[q]
             /\ mmMatches' = mmMatches]_vars

----------------------------------------------------------------------------
(* World terrain *)

\* generateMatchSeed draws explored for the terrain: both ends of its range and two
\* values between
TerrainSeeds == {MAP_SEED, MAP_SEED + 1, MAP_SEED + 4711, MAP_SEED + 999999}

\* coordinates asked for: two landmarks (one of them inside the road band), the ends
\* of the road band, the cell next to it, and cells off the road
TerrainKeys ==
    {XY(0, 0), XY(5, -3), XY(5, 0), XY(-5, 0), XY(6, 0), XY(1, 1), XY(-2, 3), XY(7, -9)}

\* one match exists, created with a drawn seed; nobody has asked for terrain yet
InitTerrain ==
    /\ now = EpochStart
    /\ timers = {[kind |-> "END", matchId |-> Uuid(1), due |-> EpochStart + MATCH_DURATION]}
    /\ transports = [p \in PlayerIds |-> 0]
    /\ players = [p \in PlayerIds |-> <<>>]
    /\ playersByMatch = [m \in MatchIds |-> <<>>]
    /\ matches = [m \in MatchIds |-> <<>>]
    /\ \E seed \in TerrainSeeds :
          mmMatches = [m \in MatchIds |->
                          IF m = Uuid(1)
                          THEN <<startMatch(createMatch(m, seed, <<"p1">>, EpochStart), EpochStart)>>
                          ELSE <<>>]
    /\ uuidCounter = 1
    /\ suspiciousPlayers = [p \in PlayerIds |-> 0]
    /\ playerActions = [p \in PlayerIds |-> <<>>]
    /\ gameItems = InitialItems
    /\ playerInventories = [p \in PlayerIds |-> <<>>]
    /\ lastAcceptedAttack = [p \in PlayerIds |-> 0]
    /\ outbox = <<>>
    /\ last = [type |-> "INIT", playerId |-> "", verdict |-> ""]

\* a call of getTerrainType(matchId, worldX, worldY); an unknown match yields 'grass'
GetTerrainType(matchId, key) ==
    /\ IF mmMatches[matchId] = <<>>
       THEN /\ last' = [type |-> "TERRAIN", playerId |-> "", verdict |-> "grass",
                        matchId |-> matchId, key |-> key, cached |-> FALSE]
            /\ UNCHANGED mmMatches
       ELSE LET match == mmMatches[matchId][1]
                tt == getTerrainType(match, key)
            IN  /\ last' = [type |-> "TERRAIN", playerId |-> "", verdict |-> tt.type,
                            matchId |-> matchId, key |-> key,
                            cached |-> CacheHas(match.terrainCache, key)]
                /\ mmMatches' = [mmMatches EXCEPT ![matchId] =
                                     <<[match EXCEPT !.terrainCache = tt.cache]>>]
    /\ UNCHANGED <<timers, now, transports, players, playersByMatch, matches, uuidCounter,
                   suspiciousPlayers, playerActions, gameItems, playerInventories,
                   lastAcceptedAttack, outbox>>

NextTerrain == \E matchId \in {Uuid(1), "lobby"}, key \in TerrainKeys : GetTerrainType(matchId, key)

SpecTerrain == InitTerrain /\ [][NextTerrain]_vars

\* the terrain the specification gives coordinate key under seed
DescribedTerrain(key, seed) ==
    LET permille == hashCoords(key[1], key[2], seed) % 1000
    IN  IF \E l \in landmarks : l.pos = key
        THEN (CHOOSE l \in landmarks : l.pos = key).type
        ELSE IF key[2] = 0 /\ key[1] >= -5 /\ key[1] <= 5 THEN "road"
        ELSE IF permille > 800 THEN "mountain"
        ELSE IF permille > 600 THEN "forest"
        ELSE IF permille > 400 THEN "hills"
        ELSE IF permille > 200 THEN "grass"
        ELSE IF permille > 100 THEN "water"
        ELSE "deep_water"

\* C24 (SpecTerrain): for a fixed match seed getTerrainType is a function of
\* (x, y, seed): a landmark coordinate yields the landmark's type, any other one the
\* band of its hash (road on y = 0, |x| <= 5), and every value held in or read from
\* the terrain cache equals the value computed without the cache, whatever the
\* order of the calls was.
C24_TerrainIsAFunctionOfCoordinateAndSeed ==
    \A matchId \in MatchIds :
        mmMatches[matchId] # <<>> =>
            LET match == mmMatches[matchId][1]
                uncached == [match EXCEPT !.terrainCache = {}]
            IN  /\ \A e \in match.terrainCache :
                      /\ e.type = DescribedTerrain(e.key, match.seed)
                      /\ e.type = getTerrainType(uncached, e.key).type
                /\ (last.type = "TERRAIN" /\ last.matchId = matchId)
                      => /\ last.verdict = DescribedTerrain(last.key, match.seed)
                         /\ last.verdict = getTerrainType(uncached, last.key).type

\* a landmark, a road cell and an off-road cell are cached and the last call read
\* an off-road cell from the cache
C24_Witness ==
    /\ last.type = "TERRAIN" /\ last.cached /\ last.matchId = Uuid(1)
    /\ last.key = XY(7, -9)
    /\ LET cache == mmMatches[Uuid(1)][1].terrainCache
       IN  /\ CacheHas(cache, XY(0, 0)) /\ CacheGet(cache, XY(0, 0)) = "town"
           /\ CacheHas(cache, XY(5, 0)) /\ CacheGet(cache, XY(5, 0)) = "road"
           /\ CacheHas(cache, XY(6, 0)) /\ CacheGet(cache, XY(6, 0)) # "road"

----------------------------------------------------------------------------
(* Rooms *)

\* hash << 5 of a number given by its 27 low bits: the int32 the shift yields
ShiftLeft5(low27) ==
    IF low27 < 67108864 THEN low27 * 32 ELSE (low27 - 134217728) * 32

\* Math.abs(hashCoords(x, y, seed)) % 1000 for a room seed, where hash << 5 wraps
\* to int32 and the additions are exact: sums are carried as thousands and rest
hashCoordsPermille(x, y, seed) ==
    LET w1 == ShiftLeft5(seed % 134217728)
        h1low == ((w1 % 134217728) + (seed % 134217728) + x) % 134217728
        r1 == (w1 % 1000) + (seed % 1000) + x
        q1 == (w1 \div 1000) + (seed \div 1000) + (r1 \div 1000)
        w2 == ShiftLeft5(h1low)
        r2 == (w2 % 1000) + (r1 % 1000) + y
        q2 == (w2 \div 1000) + q1 + (r2 \div 1000)
    IN  IF q2 >= 0 THEN r2 % 1000 ELSE (1000 - (r2 % 1000)) % 1000

Settlements == {"town", "city", "village"}

\* one cell of generateRoomTerrain's inner loop, borders left out
generateRoomTerrainOpenCell(roomType, x, y, seed) ==
    LET percent == hashCoordsPermille(x, y, seed) % 100
    IN  IF roomType \in Settlements
        THEN (IF (x = 5 \/ x = 15) /\ y >= 2 /\ y <= 17 THEN "wall" ELSE "floor")
        ELSE IF percent > 95 THEN "wall" ELSE "floor"

\* one cell of generateRoomTerrain's inner loop: value = percent / 100
generateRoomTerrainCell(roomType, x, y, seed) ==
    LET percent == hashCoordsPermille(x, y, seed) % 100
        Walls(threshold) == IF percent > threshold THEN "wall" ELSE "floor"
    IN  IF x = 0 \/ x = 19 \/ y = 0 \/ y = 19 THEN "wall"
        ELSE IF roomType \in Settlements
        THEN (IF (x = 5 \/ x = 15) /\ y >= 2 /\ y <= 17 THEN "wall" ELSE "floor")
        ELSE IF roomType = "dungeon" THEN Walls(75)
        ELSE IF roomType = "cave" THEN Walls(80)
        ELSE IF roomType = "forest" THEN Walls(65)
        ELSE IF roomType = "shore"
        THEN (IF y < 5 THEN "water"
              ELSE IF y < 8 THEN (IF percent > 70 THEN "water" ELSE "floor")
              ELSE "floor")
        ELSE IF roomType = "beach" THEN Walls(90)
        ELSE IF roomType = "swamp"
        THEN (IF percent > 80 THEN "water" ELSE IF percent > 90 THEN "wall" ELSE "floor")
        ELSE IF roomType = "desert"
        THEN (IF percent > 95 THEN "water" ELSE IF percent > 98 THEN "wall" ELSE "floor")
        ELSE IF roomType = "ruins" THEN Walls(60)
        ELSE IF roomType = "temple"
        THEN (IF (x = 10 /\ y >= 8 /\ y <= 12) \/ (y = 10 /\ x >= 8 /\ x <= 12) THEN "floor"
              ELSE Walls(70))
        ELSE IF roomType = "tower"
        THEN (IF x >= 6 /\ x <= 14 /\ y >= 6 /\ y <= 14 THEN "floor" ELSE "wall")
        ELSE IF roomType = "bridge"
        THEN (IF y >= 8 /\ y <= 12 THEN "floor" ELSE "water")
        ELSE IF roomType = "road" THEN Walls(98)
        ELSE IF roomType = "hills" THEN Walls(85)
        ELSE IF roomType = "portal"
        THEN (IF x = 10 /\ y = 10 THEN "portal" ELSE Walls(90))
        ELSE IF roomType = "camp"
        THEN (IF (x = 8 \/ x = 12) /\ (y = 8 \/ y = 12) THEN "wall" ELSE "floor")
        ELSE Walls(95)

\* terrain[y][x] for y, x in 0..19, held as rows 1..20 of cells 1..20
generateRoomTerrain(roomType, seed) ==
    [row \in 1..20 |-> [col \in 1..20 |-> generateRoomTerrainCell(roomType, col - 1, row - 1, seed)]]

\* one cell of generateRoomEntities' inner loop: value = permille / 1000
generateRoomEntitiesCell(roomType, x, y, seed) ==
    LET permille == hashCoordsPermille(x + 100, y + 100, seed)
    IN  IF roomType \in {"town", "city"}
        THEN (IF (x = 7 /\ y = 5) \/ (x = 13 /\ y = 5) THEN "NPC"
              ELSE IF x = 10 /\ y = 15 THEN "CHEST"
              ELSE IF permille > 950 THEN "NPC" ELSE "NONE")
        ELSE IF roomType = "village"
        THEN (IF x = 10 /\ y = 5 THEN "NPC"
              ELSE IF permille > 970 THEN "ITEM" ELSE IF permille > 990 THEN "NPC" ELSE "NONE")
        ELSE IF roomType = "dungeon"
        THEN (IF permille > 960 THEN "ENEMY" ELSE IF permille > 930 THEN "TRAP"
              ELSE IF permille > 890 THEN "CHEST" ELSE "NONE")
        ELSE IF roomType = "cave"
        THEN (IF permille > 970 THEN "ENEMY" ELSE IF permille > 940 THEN "CHEST"
              ELSE IF permille > 980 THEN "TRAP" ELSE "NONE")
        ELSE IF roomType = "forest"
        THEN (IF permille > 960 THEN "ENEMY" ELSE IF permille > 920 THEN "ITEM" ELSE "NONE")
        ELSE IF roomType \in {"shore", "beach"}
        THEN (IF permille > 980 THEN "ENEMY" ELSE IF permille > 950 THEN "ITEM"
              ELSE IF permille > 990 THEN "CHEST" ELSE "NONE")
        ELSE IF roomType = "swamp"
        THEN (IF permille > 950 THEN "ENEMY" ELSE IF permille > 970 THEN "TRAP"
              ELSE IF permille > 930 THEN "ITEM" ELSE "NONE")
        ELSE IF roomType = "desert"
        THEN (IF permille > 980 THEN "ENEMY" ELSE IF permille > 960 THEN "ITEM"
              ELSE IF permille > 990 THEN "CHEST" ELSE "NONE")
        ELSE IF roomType = "ruins"
        THEN (IF permille > 940 THEN "CHEST" ELSE IF permille > 970 THEN "TRAP"
              ELSE IF permille > 980 THEN "ENEMY" ELSE "NONE")
        ELSE IF roomType \in {"temple", "tower"}
        THEN (IF x = 10 /\ y = 10 THEN "NPC"
              ELSE IF roomType = "temple"
              THEN (IF permille > 960 THEN "CHEST" ELSE IF permille > 980 THEN "ITEM" ELSE "NONE")
              ELSE (IF permille > 940 THEN "CHEST" ELSE IF permille > 970 THEN "ITEM" ELSE "NONE"))
        ELSE IF roomType = "bridge"
        THEN (IF permille > 990 THEN "NPC" ELSE IF permille > 970 THEN "ITEM" ELSE "NONE")
        ELSE IF roomType = "road"
        THEN (IF permille > 980 THEN "NPC" ELSE IF permille > 995 THEN "ITEM" ELSE "NONE")
        ELSE IF roomType = "hills"
        THEN (IF permille > 970 THEN "ITEM" ELSE IF permille > 990 THEN "ENEMY" ELSE "NONE")
        ELSE IF roomType = "portal"
        THEN (IF permille > 950 THEN "ITEM" ELSE IF permille > 980 THEN "ENEMY" ELSE "NONE")
        ELSE IF roomType = "camp"
        THEN (IF permille > 960 THEN "NPC" ELSE IF permille > 980 THEN "ITEM" ELSE "NONE")
        ELSE (IF permille > 990 THEN "ITEM" ELSE IF permille > 995 THEN "ENEMY" ELSE "NONE")

\* entities[y][x] for y, x in 0..19, held as rows 1..20 of cells 1..20
generateRoomEntities(roomType, seed) ==
    [row \in 1..20 |-> [col \in 1..20 |-> generateRoomEntitiesCell(roomType, col - 1, row - 1, seed)]]

\* a room seed that also depends on how many rooms the match generated before
roomSeedByOrder(match, key) ==
    hashCoords(key[1], key[2], match.seed) + Cardinality(match.rooms)

\* roomSeed = hashCoords(worldX, worldY, match.map.seed)
roomSeed(match, key) == hashCoords(key[1], key[2], match.seed)

\* the roomData object generateRoomData builds: the fields above with its seed
\* and its two grids
RoomData(room, match) ==
    [ worldPos |-> room.worldPos, terrainType |-> room.terrainType,
      roomType |-> room.roomType, discovered |-> room.discovered,
      exploredBy |-> room.exploredBy,
      seed |-> roomSeed(match, room.worldPos),
      terrain |-> generateRoomTerrain(room.roomType, roomSeed(match, room.worldPos)),
      entities |-> generateRoomEntities(room.roomType, roomSeed(match, room.worldPos)) ]

RoomSeeds == {MAP_SEED, MAP_SEED + 4711}

\* coordinates asked for: a road cell, a cell in the hills or forest band, and a
\* cell in the mountain or deep water band
RoomKeys == {XY(1, 0), XY(-6, 1), XY(3, 1)}

RoomMatchIds == {Uuid(1), Uuid(2)}

\* two matches exist, each created with a drawn seed; no room was asked for yet
InitRoom ==
    /\ now = EpochStart
    /\ timers = {[kind |-> "END", matchId |-> m, due |-> EpochStart + MATCH_DURATION] :
                    m \in RoomMatchIds}
    /\ transports = [p \in PlayerIds |-> 0]
    /\ players = [p \in PlayerIds |-> <<>>]
    /\ playersByMatch = [m \in MatchIds |-> <<>>]
    /\ matches = [m \in MatchIds |-> <<>>]
    /\ \E seeds \in [RoomMatchIds -> RoomSeeds] :
          mmMatches = [m \in MatchIds |->
                          IF m \in RoomMatchIds
                          THEN <<startMatch(createMatch(m, seeds[m], <<"p1">>, EpochStart), EpochStart)>>
                          ELSE <<>>]
    /\ uuidCounter = 2
    /\ suspiciousPlayers = [p \in PlayerIds |-> 0]
    /\ playerActions = [p \in PlayerIds |-> <<>>]
    /\ gameItems = InitialItems
    /\ playerInventories = [p \in PlayerIds |-> <<>>]
    /\ lastAcceptedAttack = [p \in PlayerIds |-> 0]
    /\ outbox = <<>>
    /\ last = [type |-> "INIT", playerId |-> "", verdict |-> ""]

\* a call of generateRoomData(matchId, worldX, worldY): null for an unknown match or
\* inaccessible terrain, the stored room when there is one, else a new room that is
\* stored with its seed and grids
GenerateRoomData(matchId, key) ==
    /\ IF mmMatches[matchId] = <<>>
       THEN /\ last' = [type |-> "ROOM", playerId |-> "", verdict |-> "NULL",
                        matchId |-> matchId, key |-> key, cached |-> FALSE]
            /\ UNCHANGED mmMatches
       ELSE LET match == mmMatches[matchId][1]
                g == generateRoomData(match, key)
                stored == IF g.room = <<>> \/ HasRoom(match, key) THEN g.match
                          ELSE [g.match EXCEPT !.rooms =
                                    (@ \ {g.room[1]}) \cup {RoomData(g.room[1], match)}]
            IN  /\ last' = [type |-> "ROOM", playerId |-> "",
                            verdict |-> IF g.room = <<>> THEN "NULL" ELSE "ROOM",
                            matchId |-> matchId, key |-> key,
                            cached |-> HasRoom(match, key)]
                /\ mmMatches' = [mmMatches EXCEPT ![matchId] = <<stored>>]
    /\ UNCHANGED <<timers, now, transports, players, playersByMatch, matches, uuidCounter,
                   suspiciousPlayers, playerActions, gameItems, playerInventories,
                   lastAcceptedAttack, outbox>>

NextRoom == \E matchId \in RoomMatchIds \cup {"lobby"}, key \in RoomKeys : GenerateRoomData(matchId, key)

SpecRoom == InitRoom /\ [][NextRoom]_vars

\* grid is 20 rows of 20 cells
IsGrid20(grid) == Len(grid) = 20 /\ \A row \in 1..20 : Len(grid[row]) = 20

\* row 0, row 19, column 0 and column 19 of grid hold walls only
BorderIsWall(grid) ==
    \A i \in 1..20 : /\ grid[1][i] = "wall" /\ grid[20][i] = "wall"
                     /\ grid[i][1] = "wall" /\ grid[i][20] = "wall"

\* C25 (SpecRoom): generateRoomData returns null and stores no room for a coordinate
\* whose terrain is not accessible, and for accessible terrain it returns a room
\* whose terrain grid and entity grid are 20x20 and whose terrain border cells are
\* all walls; so every stored room is of that shape.
C25_RoomsOnlyForAccessibleTerrain ==
    \A matchId \in MatchIds :
        mmMatches[matchId] # <<>> =>
            LET match == mmMatches[matchId][1]
            IN  /\ \A room \in match.rooms :
                      /\ DescribedTerrain(room.worldPos, match.seed) \in AccessibleTerrain
                      /\ IsGrid20(room.terrain) /\ IsGrid20(room.entities)
                      /\ BorderIsWall(room.terrain)
                /\ (last.type = "ROOM" /\ last.matchId = matchId)
                      => IF DescribedTerrain(last.key, match.seed) \in AccessibleTerrain
                         THEN last.verdict = "ROOM" /\ HasRoom(match, last.key)
                         ELSE last.verdict = "NULL" /\ ~HasRoom(match, last.key)

\* a match has answered null for the inaccessible coordinate after it generated the
\* rooms of the two accessible ones
C25_Witness ==
    /\ last.type = "ROOM" /\ last.verdict = "NULL" /\ last.matchId = Uuid(1)
    /\ last.key = XY(3, 1)
    /\ CacheHas(mmMatches[Uuid(1)][1].terrainCache, XY(3, 1))
    /\ HasRoom(mmMatches[Uuid(1)][1], XY(1, 0))
    /\ HasRoom(mmMatches[Uuid(1)][1], XY(-6, 1))

\* what a match that has generated nothing yet builds for key under seed
FirstRoom(key, seed) ==
    LET fresh == createMatch(Uuid(1), seed, <<>>, EpochStart)
    IN  RoomData(generateRoomData(fresh, key).room[1], fresh)

SameRoomContent(r1, r2) ==
    /\ r1.terrainType = r2.terrainType /\ r1.roomType = r2.roomType
    /\ r1.terrain = r2.terrain /\ r1.entities = r2.entities

\* C26 (SpecRoom): a room's terrain type, archetype, terrain grid and entity grid
\* are a function of (x, y, match seed) only: rooms of the same coordinate in
\* matches with equal seeds are equal whatever the order of the calls, the room a
\* call returns is the one a match that generated nothing else builds, and a
\* repeated call returns the stored room unchanged.
C26_RoomIsAFunctionOfCoordinateAndSeed ==
    /\ [](\A m1 \in RoomMatchIds, m2 \in RoomMatchIds :
            /\ mmMatches[m1][1].seed = mmMatches[m2][1].seed
                  => \A r1 \in mmMatches[m1][1].rooms, r2 \in mmMatches[m2][1].rooms :
                        r1.worldPos = r2.worldPos => SameRoomContent(r1, r2)
            /\ (last.type = "ROOM" /\ last.verdict = "ROOM" /\ last.matchId = m1)
                  => SameRoomContent(RoomAt(mmMatches[m1][1], last.key),
                                     FirstRoom(last.key, mmMatches[m1][1].seed)))
    /\ [][(last'.type = "ROOM" /\ last'.cached)
            => RoomAt(mmMatches'[last'.matchId][1], last'.key)
                  = RoomAt(mmMatches[last'.matchId][1], last'.key)]_vars

\* two matches with equal seeds hold rooms for both accessible coordinates, one of
\* them generated its second room last and the other is then asked again
C26_Witness ==
    /\ mmMatches[Uuid(1)][1].seed = mmMatches[Uuid(2)][1].seed
    /\ \A m \in RoomMatchIds : HasRoom(mmMatches[m][1], XY(1, 0))
                               /\ HasRoom(mmMatches[m][1], XY(-6, 1))
    /\ last.type = "ROOM" /\ last.cached /\ last.matchId = Uuid(2) /\ last.key = XY(-6, 1)

----------------------------------------------------------------------------
(* Match lifecycle *)

LifeClockSteps == {15000}

\* time passes; a pending timer runs when it is due, so the clock does not pass a
\* due time while that timer is pending
PassTime ==
    \E d \in LifeClockSteps :
        /\ \A timer \in timers : now + d <= timer.due
        /\ AdvanceClock(d)

RunTimers == \E timer \in timers : FireTimer(timer)

\* Match lifecycle: p1 connects (each connection creates and starts a match), a
\* caller ends matches, time passes and timers run; a match is created, and ended
\* by a caller, only while the timers this schedules are due within the clock's range
NextLifecycle ==
    \/ /\ uuidCounter < MaxJoins
       /\ now + MATCH_DURATION + cleanupDelay <= MaxNow
       /\ \E seed \in Seeds : HandleNewConnection("p1", "lobby", seed)
    \/ \E m \in {Uuid(1), Uuid(2)} : now + cleanupDelay <= MaxNow /\ EndMatch(m)
    \/ RunTimers
    \/ PassTime

\* time passes and due timers run
SpecLifecycle ==
    Init /\ [][NextLifecycle]_vars /\ WF_vars(PassTime) /\ WF_vars(RunTimers)

Active(m) == mmMatches[m] # <<>> /\ mmMatches[m][1].status = "ACTIVE"
Ended(m) == mmMatches[m] # <<>> /\ mmMatches[m][1].status = "ENDED"
Removed(m) == mmMatches[m] = <<>> /\ \E n \in 1..uuidCounter : m = Uuid(n)

C28_ManualEndDefusesAutoEnd ==
    [][\A m \in Uuids :
          (/\ last'.type = "TIMER" /\ last'.matchId = m /\ last'.verdict # "DELETED"
           /\ (Ended(m) \/ Removed(m)))
          => /\ mmMatches'[m] = mmMatches[m]
             /\ timers' \subseteq timers]_vars

\* the call scenario stops its clock three steps after the start
MaxCallsNow == 48000

\* Match calls: callers create matches and start and end the first one in any order
\* while time passes and timers run
NextCalls ==
    \/ \E seed \in Seeds : uuidCounter < MaxJoins /\ CreateMatch(<<"p1">>, seed)
    \/ StartMatch(Uuid(1))
    \/ EndMatch(Uuid(1))
    \/ RunTimers
    \/ now < MaxCallsNow /\ PassTime

SpecCalls == Init /\ [][NextCalls]_vars

\* position of match m in its lifecycle: 0 not created, 1 starting, 2 active,
\* 3 ended, 4 removed
LifecycleRank(mm, counter, m) ==
    IF mm[m] # <<>>
    THEN (IF mm[m][1].status = "STARTING" THEN 1
          ELSE IF mm[m][1].status = "ACTIVE" THEN 2 ELSE 3)
    ELSE IF \E n \in 1..counter : m = Uuid(n) THEN 4 ELSE 0

\* C29 (SpecCalls): a match's lifecycle status only moves forward along
\* starting, active, ended, removed: no createMatch, startMatch or endMatch call and
\* no timer moves an ended match back to active or an active match back to starting.
C29_LifecycleOnlyMovesForward ==
    [][\A m \in Uuids :
          LifecycleRank(mmMatches', uuidCounter', m) >= LifecycleRank(mmMatches, uuidCounter, m)]_vars

----------------------------------------------------------------------------
(* End to end *)

\* accepted attacks recorded per player, and the clock's last value, in the
\* end-to-end scenario: five hits of 22 bring 100 health to 0
MaxKillHistory == 5
MaxKillNow == 9000

EndToEndAttackMessages == {[targetId |-> "p2", timestamp |-> 0]}

\* End to end: p1 and p2 join "lobby", p1 attacks p2 at the server's clock while
\* time passes, and once p2 is dead a caller ends the world matches
NextEndToEnd ==
    \/ /\ uuidCounter < MaxJoins
       /\ \E p \in PlayerIds, seed \in Seeds : HandleNewConnection(p, "lobby", seed)
    \/ \E m \in EndToEndAttackMessages, j \in CombatJitters :
            /\ HandleAttackRequest("p1", m, j)
            /\ \A p \in PlayerIds : suspiciousPlayers'[p] <= MaxFlags
                                    /\ Len(playerActions'[p]) <= MaxKillHistory
    \/ \E d \in ClockSteps : now + d <= MaxKillNow /\ AdvanceClock(d)
    \/ \E m \in {Uuid(1), Uuid(2)} : DeadSession("p2") /\ EndMatch(m)

SpecEndToEnd == Init /\ [][NextEndToEnd]_vars

\* C30 (SpecEndToEnd): when p1's attacks bring p2's health to 0, PLAYER_DIED with
\* deadPlayerId p2 and killerId p1 is broadcast, and the statistics endMatch then
\* returns for the match p1 plays in show p1 with kills = 1 and p2 with deaths = 1
\* and survived = false.
C30_KillShowsInMatchStatistics ==
    [][/\ (HasSession("p2") /\ GS("p2").alive /\ last'.type = "ATTACK_REQUEST"
           /\ players'["p2"] # <<>> /\ ~players'["p2"][1].gameState.alive)
          => \E i \in 1..Len(outbox') :
                /\ outbox'[i].type = "PLAYER_DIED"
                /\ outbox'[i].body = [deadPlayerId |-> "p2", killerId |-> "p1"]
       /\ (DeadSession("p2") /\ last'.type = "END_MATCH" /\ last'.result # <<>>
           /\ last'.result[1].stats.playerStats["p1"] # <<>>)
          => LET playerStats == last'.result[1].stats.playerStats
             IN  /\ playerStats["p1"][1].kills = 1
                 /\ playerStats["p2"] # <<>>
                 /\ playerStats["p2"][1].deaths = 1
                 /\ ~playerStats["p2"][1].survived]_vars

----------------------------------------------------------------------------
(* Match statistics *)

\* kills and collected items recorded per player in the statistics scenario
MaxKills == 2
MaxCollected == 1

PlayerOrders == {<<"p1">>, <<"p1", "p2">>, <<"p2", "p1">>}

StatsPositions == {[world |-> XY(1, 0), room |-> XY(3, 4)]}

\* Match statistics: one match is created with its players in some order and
\* started; while it is active kills, collected items and positions are recorded and
\* time passes; then the match is ended
StatsMatchActive == mmMatches[Uuid(1)] # <<>> /\ mmMatches[Uuid(1)][1].status = "ACTIVE"

NextStats ==
    \/ \E order \in PlayerOrders, seed \in Seeds : uuidCounter = 0 /\ CreateMatch(order, seed)
    \/ mmMatches[Uuid(1)] # <<>> /\ mmMatches[Uuid(1)][1].status = "STARTING"
          /\ StartMatch(Uuid(1))
    \/ \E k \in PlayerIds, v \in PlayerIds :
          /\ StatsMatchActive
          /\ RecordPlayerKill(Uuid(1), k, v)
          /\ \A p \in PlayerIds : mmMatches'[Uuid(1)][1].players[p] # <<>>
                => mmMatches'[Uuid(1)][1].players[p][1].kills <= MaxKills
    \/ \E p \in PlayerIds :
          /\ StatsMatchActive
          /\ RecordItemCollection(Uuid(1), p, 1)
          /\ \A q \in PlayerIds : mmMatches'[Uuid(1)][1].players[q] # <<>>
                => mmMatches'[Uuid(1)][1].players[q][1].itemsCollected <= MaxCollected
    \/ \E p \in PlayerIds, pos \in StatsPositions :
          StatsMatchActive /\ UpdatePlayerPosition(Uuid(1), p, pos)
    \/ \E d \in ClockSteps : now + d <= MaxShortNow /\ AdvanceClock(d)
    \/ StatsMatchActive /\ EndMatch(Uuid(1))

SpecStats == Init /\ [][NextStats]_vars

\* the statistics an endMatch call has just returned
ReturnedStats == last.result[1].stats
StatsReturned == last.type = "END_MATCH" /\ last.result # <<>>
StatsOf(p) == ReturnedStats.playerStats[p][1]
Listed == {p \in PlayerIds : ReturnedStats.playerStats[p] # <<>>}

\* C31 (SpecStats): in the statistics of a match with at least one player the winner
\* is a player with the highest kill count, and when a player with the highest kill
\* count is still alive the winner is a still-alive one, in every insertion order.
C31_WinnerHasMostKillsAliveFirst ==
    (StatsReturned /\ Listed # {})
    => /\ ReturnedStats.winner # <<>>
       /\ ReturnedStats.winner[1] \in Listed
       /\ \A p \in Listed : StatsOf(ReturnedStats.winner[1]).kills >= StatsOf(p).kills
       /\ (\E p \in Listed : /\ StatsOf(p).kills = StatsOf(ReturnedStats.winner[1]).kills
                             /\ StatsOf(p).survived)
             => StatsOf(ReturnedStats.winner[1]).survived

\* two players tie on kills, the one inserted first is alive, the other is dead
C31_Witness ==
    /\ StatsReturned /\ Listed = PlayerIds
    /\ mmMatches[Uuid(1)][1].playerOrder = <<"p1", "p2">>
    /\ StatsOf("p1").kills = 1 /\ StatsOf("p2").kills = 1
    /\ StatsOf("p1").survived /\ ~StatsOf("p2").survived
    /\ ReturnedStats.winner = <<"p1">>

\* C32 (SpecStats): in the statistics of a match with at least one player every
\* award holder is set and maximises its measure: most kills, most explored rooms,
\* most items collected, greatest survival time.
C32_AwardHoldersAreMaximisers ==
    (StatsReturned /\ Listed # {})
    => /\ ReturnedStats.mostDeadlyPlayer # <<>>
       /\ ReturnedStats.mostExplorativePlayer # <<>>
       /\ ReturnedStats.mostCollectorPlayer # <<>>
       /\ ReturnedStats.longestSurvivor # <<>>
       /\ \A p \in Listed :
             /\ StatsOf(ReturnedStats.mostDeadlyPlayer[1]).kills >= StatsOf(p).kills
             /\ StatsOf(ReturnedStats.mostExplorativePlayer[1]).roomsExplored
                   >= StatsOf(p).roomsExplored
             /\ StatsOf(ReturnedStats.mostCollectorPlayer[1]).itemsCollected
                   >= StatsOf(p).itemsCollected
             /\ StatsOf(ReturnedStats.longestSurvivor[1]).survivalTime
                   >= StatsOf(p).survivalTime

----------------------------------------------------------------------------
(* Items: both players join and send ITEM_ACTIONs naming the items the     *)
(* world table currently holds.  PickupThenDrop is a client that sends a   *)
(* pickup and, as its next message, the drop of the same item id.          *)

\* the stacks of a player's inventory, an absent inventory holding none
StacksOf(inv, p) == IF inv[p] = <<>> THEN <<>> ELSE inv[p][1].items

ItemScenarioActions == {"pickup", "use", "drop", "equip", "unequip"}
WorldKeys == {e.key : e \in gameItems}

\* two ITEM_ACTION messages handled back to back by handleItemAction
PickupThenDrop(playerId, itemId) ==
    LET v1 == validateItemAction(SA, players, playerId, itemId, "pickup", now)
        v2 == validateItemAction(v1.sa, v1.players, playerId, itemId, "drop", now)
    IN  /\ transports[playerId] > 0
        /\ HasSession(playerId) /\ GS(playerId).alive
        /\ HasItem(gameItems, itemId)
        /\ SetSA(v2.sa)
        /\ players' = v2.players
        /\ last' = [type |-> "PICKUP_DROP", playerId |-> playerId, itemId |-> itemId,
                    verdict |-> v1.branch, dropVerdict |-> v2.branch]
        /\ outbox' = IF v2.result # <<>>
                     THEN broadcastToMatch(v2.players, playersByMatch,
                              Session(playerId).matchId, "ITEM_ACTION_RESULT",
                              [playerId |-> playerId, itemId |-> itemId,
                               actionType |-> "drop", result |-> v2.result[1]])
                     ELSE sendToPlayer(players, playerId, "ITEM_ACTION_REJECTED",
                              [itemId |-> itemId, actionType |-> "drop"])
        /\ UNCHANGED <<timers, now, transports, playersByMatch, matches, mmMatches,
                       uuidCounter, lastAcceptedAttack>>

\* the scenario drops no item that was itself dropped; p1 does everything with
\* the potions and wears the armor, p2 picks potions up
MaxDroppedKeyLen == 3
ShallowDrops == \A e \in gameItems' : Len(e.key) <= MaxDroppedKeyLen
PotionKeys == {k \in WorldKeys : ItemAt(gameItems, k).templateId = "health_potion"}
ItemScenarioMessages(p) ==
    IF p = "p1"
    THEN {[itemId |-> k, actionType |-> a, timestamp |-> 0] :
             k \in PotionKeys, a \in ItemScenarioActions}
         \cup {[itemId |-> <<"leather_armor", 2>>, actionType |-> a, timestamp |-> 0] :
                  a \in {"equip", "unequip"}}
    ELSE IF playerInventories[p] = <<>>
    THEN {[itemId |-> <<"health_potion", 1>>, actionType |-> "pickup", timestamp |-> 0]}
    ELSE {}

\* and no stack is grown beyond a few units
MaxQuantity == 2
SmallStacks ==
    \A p \in PlayerIds :
        \A i \in 1..Len(StacksOf(playerInventories', p)) :
            StacksOf(playerInventories', p)[i].item.quantity <= MaxQuantity
ItemCaps == FewRecords /\ FewSlots /\ ShallowDrops /\ SmallStacks

NextItems ==
    \/ \E p \in PlayerIds, seed \in Seeds :
            transports[p] = 0 /\ HandleNewConnection(p, "lobby", seed)
    \/ \E p \in PlayerIds : \E m \in ItemScenarioMessages(p) :
            HandleItemAction(p, m) /\ ItemCaps
    \/ \E k \in PotionKeys : PickupThenDrop("p1", k) /\ ItemCaps

SpecItems == Init /\ [][NextItems]_vars

\* how many world items of each template and quantity the world table holds
WorldContent(items) ==
    [tq \in {<<e.item.templateId, e.item.quantity>> : e \in items} |->
        Cardinality({e \in items : <<e.item.templateId, e.item.quantity>> = tq})]

\* C33: a pickup of a stackable world item followed at once by the drop of the
\* same item leaves the world table with the same items per template and
\* quantity as before the pickup, and the player's inventory stacks as before
C33_PickupThenDropRestores ==
    [][ ( /\ last'.type = "PICKUP_DROP"
          /\ last'.verdict \in {"picked_up", "stacked"}
          /\ stackable(ItemAt(gameItems, last'.itemId).type) )
        => /\ WorldContent(gameItems') = WorldContent(gameItems)
           /\ StacksOf(playerInventories', last'.playerId)
                = StacksOf(playerInventories, last'.playerId) ]_vars

\* the item id the ITEM_ACTION_RESULT of the step names
ResultItemId == outbox'[1].body.itemId
SuccessfulUse == last'.type = "ITEM_ACTION" /\ last'.verdict = "consumed"

\* C34: a use succeeds only for a consumable that still has a unit left, and
\* takes exactly one unit from it, so a stack of quantity q is used at most q
\* times
C34_UseTakesOneUnitOfConsumable ==
    [][ SuccessfulUse
        => /\ ItemAt(gameItems, ResultItemId).type = "CONSUMABLE"
           /\ ItemAt(gameItems, ResultItemId).quantity >= 1
           /\ ItemAt(gameItems', ResultItemId).quantity
                = ItemAt(gameItems, ResultItemId).quantity - 1 ]_vars

----------------------------------------------------------------------------
(* Full inventories: p1 joins and keeps picking the spawned potion up,     *)
(* which stays in the world, and drops it now and then; the spawn drew a   *)
(* quantity of 3 or 5.                                                      *)

StackDraws == {3, 5}
InitStacks ==
    /\ now = EpochStart
    /\ timers = {}
    /\ transports = [p \in PlayerIds |-> 0]
    /\ players = [p \in PlayerIds |-> <<>>]
    /\ playersByMatch = [m \in MatchIds |-> <<>>]
    /\ matches = [m \in MatchIds |-> <<>>]
    /\ mmMatches = [m \in MatchIds |-> <<>>]
    /\ uuidCounter = 0
    /\ suspiciousPlayers = [p \in PlayerIds |-> 0]
    /\ playerActions = [p \in PlayerIds |-> <<>>]
    /\ \E q \in StackDraws :
          gameItems = { spawnItem("health_potion", 1, FlatPos(10, 0), q),
                        spawnItem("leather_armor", 2, FlatPos(0, 20), 1) }
    /\ playerInventories = [p \in PlayerIds |-> <<>>]
    /\ lastAcceptedAttack = [p \in PlayerIds |-> 0]
    /\ outbox = <<>>
    /\ last = [type |-> "INIT", playerId |-> "", verdict |-> ""]

StackMessage(a) == [itemId |-> <<"health_potion", 1>>, actionType |-> a, timestamp |-> 0]

\* the drops come while the inventory holds few stacks
NextStacks ==
    \/ \E seed \in Seeds : transports["p1"] = 0 /\ HandleNewConnection("p1", "lobby", seed)
    \/ HandleItemAction("p1", StackMessage("pickup")) /\ FewRecords
    \/ /\ Len(StacksOf(playerInventories, "p1")) <= MaxFewSlots
       /\ HandleItemAction("p1", StackMessage("drop")) /\ FewRecords

SpecStacks == InitStacks /\ [][NextStacks]_vars

FailedPickup ==
    last'.type = "ITEM_ACTION" /\ last'.verdict \in {"Inventory full", "No empty slots"}

\* C35: a pickup that finds no room answers with a failure result and changes
\* neither the world table nor the inventories; no inventory ever holds more
\* than maxSlots stacks and no stack more than its type's maxStack
C35_FailedPickupChangesNothing ==
    /\ [](\A p \in PlayerIds :
            /\ Len(StacksOf(playerInventories, p)) <= maxSlots
            /\ \A i \in 1..Len(StacksOf(playerInventories, p)) :
                  StacksOf(playerInventories, p)[i].item.quantity
                    <= maxStack(StacksOf(playerInventories, p)[i].item.type))
    /\ [][ FailedPickup
           => /\ gameItems' = gameItems
              /\ playerInventories' = playerInventories
              /\ outbox' # <<>>
              /\ outbox'[1].type = "ITEM_ACTION_RESULT"
              /\ outbox'[1].body.result.success = FALSE ]_vars

\* the inventory is full, one of its stacks could take no further potion, and
\* the pickup was refused
C35_Witness ==
    /\ last.type = "ITEM_ACTION" /\ last.verdict = "Inventory full"
    /\ Len(StacksOf(playerInventories, "p1")) = maxSlots
    /\ \E i \in 1..maxSlots :
          StacksOf(playerInventories, "p1")[i].item.quantity > maxStack("CONSUMABLE") - 5

----------------------------------------------------------------------------
\* the quantities of one template in a set of world entries, summed
RECURSIVE WorldQuantity(_, _)
WorldQuantity(items, templateId) ==
    IF items = {} THEN 0
    ELSE LET e == CHOOSE x \in items : TRUE
         IN  (IF e.item.templateId = templateId THEN e.item.quantity ELSE 0)
             + WorldQuantity(items \ {e}, templateId)
\* and in a sequence of inventory stacks
RECURSIVE StackQuantity(_, _)
StackQuantity(stacks, templateId) ==
    IF stacks = <<>> THEN 0
    ELSE (IF Head(stacks).item.templateId = templateId THEN Head(stacks).item.quantity ELSE 0)
         + StackQuantity(Tail(stacks), templateId)
\* the total quantity of a template in the world table and p1's and p2's inventories
TotalQuantity(items, inv, templateId) ==
    WorldQuantity(items, templateId)
    + StackQuantity(StacksOf(inv, "p1"), templateId)
    + StackQuantity(StacksOf(inv, "p2"), templateId)

ItemTemplates == {"health_potion", "leather_armor"}

\* C36: no step increases the total quantity of a template over the world
\* table and all inventories, and a drop that adds an item to the world takes
\* a stack out of the dropping player's inventory
C36_ItemsAreConserved ==
    [][ /\ \A t \in ItemTemplates :
              TotalQuantity(gameItems', playerInventories', t)
                <= TotalQuantity(gameItems, playerInventories, t)
        /\ ( /\ last'.type = "ITEM_ACTION" /\ last'.verdict = "dropped"
             /\ Cardinality(gameItems') > Cardinality(gameItems) )
           => Len(StacksOf(playerInventories', last'.playerId))
                < Len(StacksOf(playerInventories, last'.playerId)) ]_vars

----------------------------------------------------------------------------
\* the step raised the kill counter of p's session
KillCounted(p) ==
    /\ HasSession(p) /\ players'[p] # <<>>
    /\ players'[p][1].gameState.kills > GS(p).kills
\* the step sent a PLAYER_DIED naming victim
DeathAnnounced(victim) ==
    \E i \in 1..Len(outbox') :
        outbox'[i].type = "PLAYER_DIED" /\ outbox'[i].body.deadPlayerId = victim

\* C37: a kill is counted, and a death announced, only for an attack of
\* another player on a victim that still had health: not for an attack on a
\* target whose health is 0 already and not for an attack of a player on itself
C37_KillsOnlyForLivingOthers ==
    [][ \A p, victim \in PlayerIds :
          ( KillCounted(p) \/ (last'.playerId = p /\ DeathAnnounced(victim)) )
          => /\ last'.type = "ATTACK_REQUEST" /\ last'.playerId = p
             /\ \E q \in PlayerIds \ {p} :
                   /\ HasSession(q) /\ GS(q).health > 0
                   /\ players'[q][1].gameState.health = 0
                   /\ DeathAnnounced(q)
             /\ ~DeathAnnounced(p) ]_vars

----------------------------------------------------------------------------
(* Registry: players connect with the match id 'lobby' or with the id of a *)
(* world match created before, close transports and report their status.   *)

RegistryStatusMessages == {[status |-> "in_game"]}

NextRegistry ==
    \/ \E p \in PlayerIds, m \in KnownMatchIds, seed \in Seeds :
            HandleNewConnection(p, m, seed) /\ uuidCounter' <= MaxJoins
    \/ \E p \in PlayerIds : HandleClose(p)
    \/ \E p \in PlayerIds, m \in RegistryStatusMessages : HandleStatusUpdate(p, m)

SpecRegistry == Init /\ [][NextRegistry]_vars

\* the session registered for p is attached to match m
AttachedTo(p, m) == HasSession(p) /\ Session(p).matchId = m

\* C38: a player id is in the player set of match m exactly if the session
\* registered for it has match id m, and a broadcast reaches only sessions
\* attached to the sender's match
C38_RegistryAgreesWithPlayerSets ==
    /\ \A p \in PlayerIds, m \in MatchIds :
          p \in SeqToSet(playersByMatch[m]) <=> AttachedTo(p, m)
    /\ ( last.type = "STATUS_UPDATE" /\ last.verdict = "UPDATED" )
       => \A i \in 1..Len(outbox) :
             AttachedTo(outbox[i].to, Session(last.playerId).matchId)

\* the close (or error) event of a transport of p while another transport of
\* p, opened later, has its session registered: the handler closes over the
\* player id only, so the step is HandleClose's
OlderTransportCloses(p) ==
    transports[p] >= 2 /\ HasSession(p) /\ HandleClose(p)

\* C39: when a player id has connected a second time and the first transport
\* then closes, the session of the second connection stays registered and
\* stays in its match's player set
C39_OlderCloseKeepsNewerSession ==
    [][ \A p \in PlayerIds :
          OlderTransportCloses(p)
          => /\ players'[p] = players[p]
             /\ p \in SeqToSet(playersByMatch'[Session(p).matchId]) ]_vars

----------------------------------------------------------------------------
(* Positions: a match is created and started and its players' positions    *)
(* are updated to plains, forest and mountain cells.                        *)

PositionUpdates == {[world |-> k, room |-> XY(3, 4)] : k \in RoomKeys}

NextPosition ==
    \/ \E order \in PlayerOrders, seed \in Seeds : uuidCounter = 0 /\ CreateMatch(order, seed)
    \/ mmMatches[Uuid(1)] # <<>> /\ mmMatches[Uuid(1)][1].status = "STARTING"
          /\ StartMatch(Uuid(1))
    \/ \E p \in PlayerIds, pos \in PositionUpdates : UpdatePlayerPosition(Uuid(1), p, pos)
    \/ \E d \in ClockSteps : now + d <= MaxShortNow /\ AdvanceClock(d)

SpecPosition == Init /\ [][NextPosition]_vars

\* canMoveToPosition for the cell key of a match
CellAccessible(match, key) == isTerrainAccessible(getTerrainType(match, key).type)
PlayerStateOf(mm, p) == mm[Uuid(1)][1].players[p][1]
InMatch(mm, p) == mm[Uuid(1)] # <<>> /\ mm[Uuid(1)][1].players[p] # <<>>

\* C40: a player's world position in a match is a cell of accessible terrain;
\* an update to a cell of non-accessible terrain leaves the position as it was
\* and adds nothing to the player's explored rooms
C40_PositionsAreAccessible ==
    /\ [](\A p \in PlayerIds :
            InMatch(mmMatches, p)
            => CellAccessible(mmMatches[Uuid(1)][1], PlayerStateOf(mmMatches, p).position.world))
    /\ [][ \A p \in PlayerIds :
             ( /\ last'.type = "UPDATE_POSITION" /\ last'.playerId = p
               /\ InMatch(mmMatches, p)
               /\ ~CellAccessible(mmMatches[Uuid(1)][1], last'.position.world) )
             => /\ PlayerStateOf(mmMatches', p).position = PlayerStateOf(mmMatches, p).position
                /\ PlayerStateOf(mmMatches', p).roomsExplored
                     = PlayerStateOf(mmMatches, p).roomsExplored ]_vars
====
